---------------------------- MODULE Spec2Model ----------------------------
(***************************************************************************)
(* A model of Resonara's acoustic measurement engine: the transient        *)
(* detector, the RT60 estimator, the band mapper, the noise-floor          *)
(* estimator, the overtone detector and the compatibility scorer.          *)
(*                                                                         *)
(* Numbers.  The engine computes in IEEE floating point.  The model keeps  *)
(* every finite value as an exact fraction [n, d] and the three special    *)
(* values (NaN, +Infinity, -Infinity) as values of their own, with the     *)
(* IEEE rules for them.  Rounding to the nearest float is not modelled:    *)
(* the inputs are small integers, on which the code's comparisons come     *)
(* out the same in exact arithmetic.  Time-domain samples are counted in   *)
(* tenths of full scale (a sample 5 is the amplitude 0.5).                 *)
(***************************************************************************)
EXTENDS Integers, Sequences, FiniteSets, TLC

VARIABLES
    pc,                  \* position of the running call
    sampleRate,          \* the sample rate handed to the call
    buffer,              \* detectTransients: the recording
    config,              \* detectTransients: the merged configuration
    w,                   \* detectTransients: the loop's window index
    lastDetectedSample,  \* detectTransients: the interval gate
    events,              \* detectTransients: the events recorded so far
    transient,           \* extractImpulseResponse: the event it is given
    durationSeconds,     \* extractImpulseResponse: the duration it is given
    segment,             \* extractImpulseResponse: the array it returns
    impulseResponse,     \* rt60: the impulse response handed to the call
    decayCurve,          \* rt60: the Schroeder curve, in dB
    rt60,                \* rt60: the estimate
    quality,             \* rt60: analyseRT60's quality
    fftSize,             \* the FFT size handed to the call
    frequencyData,       \* useFFT: the frequency-domain frame, in dB
    energyCentres,       \* useFFT: the band levels of the frame
    binsRead,            \* useFFT: per band, the indices bandEnergy read
    samples,             \* analyseNoiseFloor: the RMS of each frame heard
    frequencySnapshots,  \* analyseNoiseFloor: the frames heard
    noiseResult,         \* analyseNoiseFloor: the NoiseFloorResult
    magnitudeSpectrum,   \* detectOvertones: the spectrum in dB
    overtones,           \* detectOvertones: the OvertoneResult
    scoringInput,        \* computeCompatibilityScore: its ScoringInput
    compatibilityScore,  \* computeCompatibilityScore: the score returned
    hz,                  \* frequencyToNote, frequencyToCentre: the frequency given
    note,                \* frequencyToNote: the NoteInfo returned
    recovered,           \* noteToFrequency: the frequency returned
    centre,              \* frequencyToCentre: the band returned
    phase,               \* ClapTest: "idle", "recording" or "done"
    pendingStarts,       \* ClapTest: startRecording calls waiting for the microphone
    isRecording,         \* useImpulseCapture: state
    results,             \* useImpulseCapture: state
    error,               \* useImpulseCapture: state, "null" for null
    currentPeak,         \* useImpulseCapture: state
    processorRef,        \* useImpulseCapture: "node" or "null"
    orphaned,            \* a processor that processorRef no longer holds is connected
    bufferRef,           \* useImpulseCapture: the blocks recorded
    arrived,             \* the blocks the audio front end delivered in this recording
    pendingBlock,        \* the block one processor has had and the other not yet
    returned,            \* what the last stopCapture returned, "none" before it
    calls,               \* useAudioStream: where each call of start() stands
    state,               \* useAudioStream: isActive, isPermissionGranted, error
    streamRef,           \* useAudioStream: the stream held, 0 for null
    sourceRef,           \* useAudioStream: the source node held, 0 for null
    liveStreams,         \* the microphone streams whose tracks are live
    lastCall,            \* the last of start and stop that was called
    heap,                \* the Float32Arrays allocated, by address
    analyser,            \* createFFTAnalyser: the addresses of its two buffers
    fftData,             \* useFFT: the FFTData published, <<>> for null
    rmsSamplesRef,       \* AmbientListen: the RMS values collected
    freqSnapshotsRef,    \* AmbientListen: the addresses of the frames collected
    collectDue           \* AmbientListen: fft.data changed, the effect is to run

transientVars ==
    <<buffer, config, w, lastDetectedSample, events, transient, durationSeconds, segment>>

rt60Vars == <<impulseResponse, decayCurve, rt60, quality>>

bandVars == <<fftSize, frequencyData, energyCentres, binsRead>>

noiseVars == <<samples, frequencySnapshots, noiseResult>>

overtoneVars == <<magnitudeSpectrum, overtones>>

scoreVars == <<scoringInput, compatibilityScore>>

frequencyVars == <<hz, note, recovered, centre>>

captureVars ==
    <<phase, pendingStarts, isRecording, results, error, currentPeak, processorRef,
      orphaned, bufferRef, arrived, pendingBlock, returned>>

streamVars == <<calls, state, streamRef, sourceRef, liveStreams, lastCall>>

frameVars == <<heap, analyser, fftData, rmsSamplesRef, freqSnapshotsRef, collectDue>>

vars ==
    <<pc, sampleRate, transientVars, rt60Vars, bandVars, noiseVars, overtoneVars,
      scoreVars, frequencyVars, captureVars, streamVars, frameVars>>

---------------------------------------------------------------------------
(* Exact fractions *)

RECURSIVE GCD(_, _)
GCD(a, b) == IF b = 0 THEN a ELSE GCD(b, a % b)

Abs(x) == IF x < 0 THEN -x ELSE x

Min(a, b) == IF a < b THEN a ELSE b

Max(a, b) == IF a > b THEN a ELSE b

\* The fraction n/d (d > 0) in lowest terms.
Rat(n, d) ==
    LET g == GCD(Abs(n), d)
    IN  [n |-> n \div g, d |-> d \div g]

RAdd(a, b) == Rat(a.n * b.d + b.n * a.d, a.d * b.d)

\* a / b for b > 0
RDiv(a, b) == Rat(a.n * b.d, a.d * b.n)

RLess(a, b) == a.n * b.d < b.n * a.d

RLeq(a, b) == a.n * b.d <= b.n * a.d

\* Math.floor of a fraction
RFloor(a) == a.n \div a.d

RECURSIVE SumSeq(_)
SumSeq(s) == IF s = <<>> THEN 0 ELSE Head(s) + SumSeq(Tail(s))

RECURSIVE RSumSeq(_)
RSumSeq(s) == IF s = <<>> THEN Rat(0, 1) ELSE RAdd(Head(s), RSumSeq(Tail(s)))

---------------------------------------------------------------------------
(* IEEE numbers: a finite value is sign s times n/d (so zero has a sign),
   and +Infinity, -Infinity and NaN are values of their own. *)

F(s, n, d) ==
    LET g == GCD(n, d)
    IN  [k |-> "fin", s |-> s, n |-> n \div g, d |-> d \div g]

FInt(x) == F(IF x < 0 THEN -1 ELSE 1, Abs(x), 1)

FInf(s) == [k |-> "inf", s |-> s, n |-> 1, d |-> 1]

PosInf == FInf(1)

NegInf == FInf(-1)

NaN == [k |-> "nan", s |-> 1, n |-> 0, d |-> 1]

FIsZero(a) == a.k = "fin" /\ a.n = 0

FIsFinite(a) == a.k = "fin"

FNeg(a) == IF a.k = "nan" THEN a ELSE [a EXCEPT !.s = -a.s]

FAbs(a) == IF a.k = "nan" THEN a ELSE [a EXCEPT !.s = 1]

\* a + b: Infinity - Infinity is NaN; a zero sum is +0 unless both are -0.
FAdd(a, b) ==
    IF a.k = "nan" \/ b.k = "nan" THEN NaN
    ELSE IF a.k = "inf" /\ b.k = "inf" THEN (IF a.s = b.s THEN a ELSE NaN)
    ELSE IF a.k = "inf" THEN a
    ELSE IF b.k = "inf" THEN b
    ELSE LET num == a.s * a.n * b.d + b.s * b.n * a.d
         IN  IF num = 0
             THEN F(IF a.s = -1 /\ b.s = -1 THEN -1 ELSE 1, 0, 1)
             ELSE F(IF num < 0 THEN -1 ELSE 1, Abs(num), a.d * b.d)

FSub(a, b) == FAdd(a, FNeg(b))

\* a * b: Infinity * 0 is NaN.
FMul(a, b) ==
    IF a.k = "nan" \/ b.k = "nan" THEN NaN
    ELSE IF (a.k = "inf" /\ FIsZero(b)) \/ (b.k = "inf" /\ FIsZero(a)) THEN NaN
    ELSE IF a.k = "inf" \/ b.k = "inf" THEN FInf(a.s * b.s)
    ELSE F(a.s * b.s, a.n * b.n, a.d * b.d)

\* a / b: 0/0 and Infinity/Infinity are NaN; x/0 is an infinity.
FDiv(a, b) ==
    IF a.k = "nan" \/ b.k = "nan" THEN NaN
    ELSE IF a.k = "inf" /\ b.k = "inf" THEN NaN
    ELSE IF a.k = "inf" THEN FInf(a.s * b.s)
    ELSE IF b.k = "inf" THEN F(a.s * b.s, 0, 1)
    ELSE IF FIsZero(b) THEN (IF FIsZero(a) THEN NaN ELSE FInf(a.s * b.s))
    ELSE F(a.s * b.s, a.n * b.d, a.d * b.n)

\* a < b; FALSE when either is NaN.
FLess(a, b) ==
    IF a.k = "nan" \/ b.k = "nan" THEN FALSE
    ELSE IF a.k = "inf" THEN a.s = -1 /\ ~(b.k = "inf" /\ b.s = -1)
    ELSE IF b.k = "inf" THEN b.s = 1
    ELSE a.s * a.n * b.d < b.s * b.n * a.d

\* a = b as numbers (-0 equals +0); FALSE when either is NaN.
FEq(a, b) ==
    IF a.k = "nan" \/ b.k = "nan" THEN FALSE
    ELSE IF a.k = "inf" \/ b.k = "inf" THEN a.k = b.k /\ a.s = b.s
    ELSE a.s * a.n * b.d = b.s * b.n * a.d

FLeq(a, b) == FLess(a, b) \/ FEq(a, b)

\* Math.max and Math.min: NaN when either is.
FMax(a, b) ==
    IF a.k = "nan" \/ b.k = "nan" THEN NaN
    ELSE IF FLess(a, b) THEN b
    ELSE IF FLess(b, a) THEN a
    ELSE IF a.s = 1 THEN a ELSE b

FMin(a, b) ==
    IF a.k = "nan" \/ b.k = "nan" THEN NaN
    ELSE IF FLess(a, b) THEN a
    ELSE IF FLess(b, a) THEN b
    ELSE IF a.s = -1 THEN a ELSE b

\* Math.floor; an infinity and NaN stay as they are.
FFloor(a) ==
    IF a.k # "fin" THEN a
    ELSE IF a.s = 1 THEN F(1, a.n \div a.d, 1)
    ELSE IF a.n = 0 THEN a
    ELSE F(-1, (a.n + a.d - 1) \div a.d, 1)

\* Math.ceil: minus the floor of the negation (Math.ceil(-0.8) is -0).
FCeil(a) == FNeg(FFloor(FNeg(a)))

\* Math.round: the floor of a + 0.5, with the sign of a when that is zero.
FRound(a) ==
    IF a.k # "fin" THEN a
    ELSE LET r == FFloor(FAdd(a, F(1, 1, 2)))
         IN  IF FIsZero(r) THEN F(a.s, 0, 1) ELSE r

\* The integer a finite whole value stands for.
FToInt(a) == a.s * a.n

\* sum = acc; sum += s[1]; sum += s[2]; ...
RECURSIVE FSumFrom(_, _)
FSumFrom(acc, s) == IF s = <<>> THEN acc ELSE FSumFrom(FAdd(acc, Head(s)), Tail(s))

---------------------------------------------------------------------------
(* rt60.ts *)

(* A level in dB is kept as the power ratio it is the logarithm of: the
   fraction r stands for 10 * log10(r), so 1 is 0 dB and 0 is -Infinity.
   log10 is increasing, so levels compare as their ratios do, and a level is
   at most -5m dB exactly when 10^m * r^2 <= 1. *)
ZeroDB == Rat(1, 1)

RECURSIVE Pow10(_)
Pow10(m) == IF m = 0 THEN 1 ELSE 10 * Pow10(m - 1)

\* floor(10^(m/2)) for m = 0..7
FloorRoot10(m) == <<1, 3, 10, 31, 100, 316, 1000, 3162>>[m + 1]

\* level <= -k dB, for k a multiple of 5 up to 35 and a ratio r >= 0.  The
\* quotient decides unless it is floor(10^(m/2)), and then the squares are small.
AtMostDB(r, k) ==
    LET m == k \div 5
        q == r.d \div r.n
    IN  IF r.n = 0 THEN TRUE
        ELSE IF q < FloorRoot10(m) THEN FALSE
        ELSE IF q > FloorRoot10(m) THEN TRUE
        ELSE Pow10(m) * r.n * r.n <= r.d * r.d

\* The integration run forward: each energy is the sum up to its index.
RECURSIVE ForwardEnergy(_)
ForwardEnergy(ir) ==
    IF ir = <<>> THEN <<>>
    ELSE LET n == Len(ir)
             rest == ForwardEnergy(SubSeq(ir, 1, n - 1))
         IN  rest \o <<ir[n] * ir[n] + (IF rest = <<>> THEN 0 ELSE rest[n - 1])>>

\* energyCurve before the conversion (lines 14-24): the backward sums of the
\* squared samples.
RECURSIVE BackwardEnergy(_)
BackwardEnergy(ir) ==
    IF ir = <<>> THEN <<>>
    ELSE LET rest == BackwardEnergy(Tail(ir))
         IN  <<Head(ir) * Head(ir) + (IF rest = <<>> THEN 0 ELSE rest[1])>> \o rest

\* The conversion of lines 32-34 applied whatever the total energy: a silent
\* curve becomes the logarithm of 0.
SchroederIntegrationAlwaysConverted(ir) ==
    LET energyCurve == BackwardEnergy(ir)
    IN  [i \in 1..Len(ir) |->
            IF energyCurve[1] <= 0 THEN Rat(0, 1)
            ELSE Rat(energyCurve[i], energyCurve[1])]

\* schroederIntegration (lines 10-37): the curve in dB; the energies
\* themselves (all 0, read as dB) when the total energy is not positive.
SchroederIntegration(ir) ==
    LET energyCurve == BackwardEnergy(ir)
    IN  IF ir = <<>> THEN <<>>
        ELSE IF energyCurve[1] <= 0
             THEN [i \in 1..Len(ir) |-> ZeroDB]
             ELSE [i \in 1..Len(ir) |-> Rat(energyCurve[i], energyCurve[1])]

\* The search loop without its break: the last index at or under -k dB.
RECURSIVE FirstAtMostNoBreak(_, _, _)
FirstAtMostNoBreak(curve, k, i) ==
    IF i >= Len(curve) THEN -1
    ELSE LET later == FirstAtMostNoBreak(curve, k, i + 1)
         IN  IF later >= 0 THEN later
             ELSE IF AtMostDB(curve[i + 1], k) THEN i ELSE -1

\* The loops of lines 46-61 and 65-71: the first 0-based index whose level is
\* at most -k dB, -1 when there is none.
RECURSIVE FirstAtMost(_, _, _)
FirstAtMost(curve, k, i) ==
    IF i >= Len(curve) THEN -1
    ELSE IF AtMostDB(curve[i + 1], k) THEN i
    ELSE FirstAtMost(curve, k, i + 1)

\* Line 63 with the t25 <= t5 test dropped.
EstimateRT60NoOrderTest(curve, sr) ==
    LET t5 == FirstAtMost(curve, 5, 0)
        t25 == FirstAtMost(curve, 25, 0)
        t10 == FirstAtMost(curve, 10, 0)
    IN  IF t5 < 0 \/ t25 < 0
        THEN IF t10 <= 0 THEN Rat(0, 1) ELSE Rat(t10 * 6, sr)
        ELSE Rat((t25 - t5) * 3, sr)

\* estimateRT60 (lines 44-79), in seconds.
EstimateRT60(curve, sr) ==
    LET t5 == FirstAtMost(curve, 5, 0)
        t25 == FirstAtMost(curve, 25, 0)
        t10 == FirstAtMost(curve, 10, 0)
    IN  IF t5 < 0 \/ t25 < 0 \/ t25 <= t5
        THEN IF t10 <= 0 THEN Rat(0, 1) ELSE Rat(t10 * 6, sr)
        ELSE Rat((t25 - t5) * 3, sr)

\* computeRT60 (lines 84-87)
ComputeRT60(ir, sr) == EstimateRT60(SchroederIntegration(ir), sr)

\* minDB of lines 103-106: the least level of the curve, or 0 dB.
MinDB(curve) ==
    LET levels == {curve[i] : i \in 1..Len(curve)} \cup {ZeroDB}
    IN  CHOOSE m \in levels : \A l \in levels : RLeq(m, l)

\* Lines 108-111 with the two tests in the other order.
QualityFairFirst(curve) ==
    IF AtMostDB(MinDB(curve), 20) THEN "fair"
    ELSE IF AtMostDB(MinDB(curve), 35) THEN "good"
    ELSE "poor"

\* The quality of lines 108-111.
Quality(curve) ==
    IF AtMostDB(MinDB(curve), 35) THEN "good"
    ELSE IF AtMostDB(MinDB(curve), 20) THEN "fair"
    ELSE "poor"

\* analyseRT60 (lines 98-114) as a function of its arguments.
AnalyseRT60Result(ir, sr) ==
    LET curve == SchroederIntegration(ir)
    IN  [rt60 |-> EstimateRT60(curve, sr), decayCurve |-> curve, quality |-> Quality(curve)]

---------------------------------------------------------------------------
(* transientDetector.ts *)

\* Bounds of the checked recordings.
MaxTailWindows == 4
MaxWindowSize == 2

\* Math.min(20, numWindows): the windows averaged into the background.
AvgWindows == 20

\* Math.pow(10, thresholdDB / 10) for the thresholds the model draws, to five
\* digits (no energy ratio of the checked recordings lies within the error).
ThresholdLinear(thresholdDB) ==
    CASE thresholdDB = 0 -> Rat(1, 1)
      [] thresholdDB = 6 -> Rat(39811, 10000)
      [] thresholdDB = 10 -> Rat(10, 1)

DEFAULT_CONFIG ==
    [thresholdDB |-> 6,
     minAmplitude |-> 1,
     minIntervalSeconds |-> Rat(3, 10),
     windowSize |-> 512]

\* Math.floor(minIntervalSeconds * sampleRate)
MinIntervalSamples(minIntervalSeconds, sr) ==
    RFloor(Rat(minIntervalSeconds.n * sr, minIntervalSeconds.d))

NumWindows(buf, windowSize) == Len(buf) \div windowSize

\* energies[w]: the mean of the squared samples of window win (0-based).
Energy(buf, windowSize, win) ==
    Rat(SumSeq([i \in 1..windowSize |->
                   buf[win * windowSize + i] * buf[win * windowSize + i]]),
        windowSize)

\* A background of three windows in the place of twenty.
AvgWindowSizeOfThree(buf, windowSize) == Min(3, NumWindows(buf, windowSize))

AvgWindowSize(buf, windowSize) == Min(AvgWindows, NumWindows(buf, windowSize))

\* The mean energy of the avgWindowSize windows before window win.
BgEnergy(buf, windowSize, win) ==
    LET a == AvgWindowSize(buf, windowSize)
        s == RSumSeq([j \in 1..a |-> Energy(buf, windowSize, win - a + j - 1)])
    IN  Rat(s.n, s.d * a)

Ratio(buf, windowSize, win) ==
    LET bg == BgEnergy(buf, windowSize, win)
    IN  IF bg.n > 0 THEN RDiv(Energy(buf, windowSize, win), bg) ELSE Rat(0, 1)

\* The largest |sample| of window win.
Peak(buf, windowSize, win) ==
    LET a == {Abs(buf[win * windowSize + i]) : i \in 1..windowSize}
    IN  CHOOSE p \in a : \A q \in a : q <= p

\* The interval gate of line 80.
GateOpen(sampleIndex, last, minIntervalSamples) ==
    sampleIndex - last >= minIntervalSamples

\* A ratio test that every window passes.
FiresAlways(buf, cfg, win) == TRUE

\* The ratio test of line 80.
Fires(buf, cfg, win) ==
    RLess(ThresholdLinear(cfg.thresholdDB), Ratio(buf, cfg.windowSize, win))

\* An amplitude gate that keeps every window.
LoudAlways(buf, cfg, win) == TRUE

\* The amplitude gate of line 89: TRUE when the window is kept.
Loud(buf, cfg, win) == ~(Peak(buf, cfg.windowSize, win) < cfg.minAmplitude)



\* The loop of lines 69-100 from window win on, as the list of its events.
RECURSIVE DetectFrom(_, _, _, _, _)
DetectFrom(buf, sr, cfg, win, last) ==
    IF ~(win < NumWindows(buf, cfg.windowSize)) THEN <<>>
    ELSE LET sampleIndex == win * cfg.windowSize
             record ==
                 /\ Fires(buf, cfg, win)
                 /\ GateOpen(sampleIndex, last,
                             MinIntervalSamples(cfg.minIntervalSeconds, sr))
                 /\ Loud(buf, cfg, win)
         IN  (IF record
              THEN <<[sampleIndex |-> sampleIndex,
                      timeSeconds |-> Rat(sampleIndex, sr),
                      peakAmplitude |-> Peak(buf, cfg.windowSize, win),
                      energyRatio |-> Ratio(buf, cfg.windowSize, win)]>>
              ELSE <<>>)
                 \o DetectFrom(buf, sr, cfg, win + 1,
                               IF record THEN sampleIndex ELSE last)

\* detectTransients (lines 38-103) as a function of its arguments.
DetectTransients(buf, sr, cfg) ==
    DetectFrom(buf, sr, cfg, AvgWindowSize(buf, cfg.windowSize),
               -MinIntervalSamples(cfg.minIntervalSeconds, sr))

\* array.slice(start, end) with both arguments given: an index below 0 counts
\* from the end, and both are clamped to the array.  This one keeps the
\* element at end as well.
SliceInclusive(array, start, end) ==
    LET len == Len(array)
        k == IF start < 0 THEN Max(len + start, 0) ELSE Min(start, len)
        final == IF end < 0 THEN Max(len + end, 0) ELSE Min(end, len)
    IN  [i \in 1..Max(Min(final + 1, len) - k, 0) |-> array[k + i]]

\* array.slice(start, end) (line 125)
Slice(array, start, end) ==
    LET len == Len(array)
        k == IF start < 0 THEN Max(len + start, 0) ELSE Min(start, len)
        final == IF end < 0 THEN Max(len + end, 0) ELSE Min(end, len)
    IN  [i \in 1..Max(final - k, 0) |-> array[k + i]]

\* extractImpulseResponse taking the buffer's last index for its length.
ExtractImpulseResponseToLastIndex(buf, event, duration, sr) ==
    LET startSample == event.sampleIndex
        length == Min(RFloor(Rat(duration.n * sr, duration.d)),
                      Len(buf) - 1 - startSample)
    IN  IF length <= 0 THEN <<>> ELSE Slice(buf, startSample, startSample + length)

\* extractImpulseResponse (lines 109-126)
ExtractImpulseResponse(buf, event, duration, sr) ==
    LET startSample == event.sampleIndex
        length == Min(RFloor(Rat(duration.n * sr, duration.d)), Len(buf) - startSample)
    IN  IF length <= 0 THEN <<>> ELSE Slice(buf, startSample, startSample + length)

---------------------------------------------------------------------------
(* fftAnalyser.ts, useFFT.ts: the band mapper *)

\* ENERGY_CENTRES of useFFT.ts (the same table is ENERGY_BANDS of
\* noiseFloor.ts and of the compatibility scorer), in Hz.
ENERGY_CENTRES ==
    << [name |-> "root", low |-> 32, high |-> 128],
       [name |-> "sacral", low |-> 128, high |-> 256],
       [name |-> "solarPlexus", low |-> 256, high |-> 384],
       [name |-> "heart", low |-> 384, high |-> 512],
       [name |-> "throat", low |-> 512, high |-> 768],
       [name |-> "thirdEye", low |-> 768, high |-> 1024],
       [name |-> "crown", low |-> 1024, high |-> 4000] >>

Bands == 1..Len(ENERGY_CENTRES)

\* frequencyToBin (lines 62-64): Math.round(freq * fftSize / sampleRate), for
\* a frequency, an FFT size and a sample rate that are positive.
FrequencyToBin(freq, sr, fft) == FToInt(FRound(FDiv(FInt(freq * fft), FInt(sr))))

\* The loop of line 80 without its i < frequencyData.length test.
LoopBinsUnclamped(len, lowBin, highBin) == lowBin..highBin

\* The indices the loop of line 80 visits, in order: from lowBin while
\* i <= highBin and i < frequencyData.length.
LoopBins(len, lowBin, highBin) == {i \in lowBin..highBin : i < len}

\* frequencyData[i]; a read outside the array gives undefined, which is NaN
\* once added.
At(data, i) == IF 0 <= i /\ i < Len(data) THEN data[i + 1] ELSE NaN

\* The ascending sequence of a finite set of integers.
RECURSIVE Ascending(_)
Ascending(S) ==
    IF S = {} THEN <<>>
    ELSE LET lo == CHOOSE x \in S : \A y \in S : x <= y
         IN  <<lo>> \o Ascending(S \ {lo})

\* bandEnergy (lines 69-85): the indices read and the value returned.
BandEnergy(data, lowFreq, highFreq, sr, fft) ==
    LET lowBin == FrequencyToBin(lowFreq, sr, fft)
        highBin == FrequencyToBin(highFreq, sr, fft)
        visited == Ascending(LoopBins(Len(data), lowBin, highBin))
        sum == FSumFrom(FInt(0), [j \in 1..Len(visited) |-> At(data, visited[j])])
        count == Len(visited)
    IN  [read |-> {visited[j] : j \in 1..Len(visited)},
         value |-> IF count > 0 THEN FDiv(sum, FInt(count)) ELSE NegInf]

---------------------------------------------------------------------------
(* noiseFloor.ts *)

(* An RMS amplitude is counted in units of 1e-10 of full scale, so the floor
   1e-10 of linearToDB is 1.  A level in dB is kept as the amplitude it is the
   logarithm of, and an offset in dB: [of |-> x, plus |-> p] stands for
   20 * log10(x * 1e-10) + p.  It is NaN when x is, and finite when x is
   finite and positive. *)
LinFloor == F(1, 1, 1)

\* linearToDB (lines 44-46)
LinearToDB(value) == [of |-> FMax(value, LinFloor), plus |-> 0]

\* Math.max(...samples): -Infinity for no argument.
RECURSIVE MaxOf(_, _)
MaxOf(acc, s) == IF s = <<>> THEN acc ELSE MaxOf(FMax(acc, Head(s)), Tail(s))

\* The tests of lines 93-95 with <= in the place of <.
LevelBelowInclusive(level, db) ==
    LET x == level.of
    IN  IF x.k = "nan" THEN FALSE
        ELSE IF x.k = "inf" THEN x.s = -1
        ELSE CASE db = -50 -> x.n <= 31622776 * x.d + (6017 * x.d) \div 10000
               [] db = -40 -> x.n <= 100000000 * x.d
               [] db = -30 -> x.n <= 316227766 * x.d

\* level < -50, < -40, < -30 of lines 93-95 (10^7.5 = 31622776.6017 and
\* 10^8.5 = 316227766.017 units); FALSE for NaN.
LevelBelow(level, db) ==
    LET x == level.of
    IN  IF x.k = "nan" THEN FALSE
        ELSE IF x.k = "inf" THEN x.s = -1
        ELSE CASE db = -50 -> x.n <= 31622776 * x.d + (6017 * x.d) \div 10000
               [] db = -40 -> x.n < 100000000 * x.d
               [] db = -30 -> x.n <= 316227766 * x.d

\* The rating of lines 92-96.
Rating(averageDB) ==
    IF LevelBelow(averageDB, -50) THEN "excellent"
    ELSE IF LevelBelow(averageDB, -40) THEN "good"
    ELSE IF LevelBelow(averageDB, -30) THEN "fair"
    ELSE "poor"

\* The concatenation of a sequence of sequences.
RECURSIVE Flatten(_)
Flatten(ss) == IF ss = <<>> THEN <<>> ELSE Head(ss) \o Flatten(Tail(ss))

\* The sequences over S of length at most n.
SeqsUpTo(S, n) == UNION {[1..k -> S] : k \in 0..n}

\* The levels of one band over all the snapshots, in the order lines 77-82
\* add them up.
PooledLevels(snapshots, lowBin, highBin) ==
    Flatten([k \in 1..Len(snapshots) |->
                LET visited == Ascending(LoopBins(Len(snapshots[k]), lowBin, highBin))
                IN  [j \in 1..Len(visited) |-> At(snapshots[k], visited[j])]])

\* bandLevels of lines 68-86: no entry when there is no snapshot.
BandLevels(snapshots, sr, fft) ==
    IF Len(snapshots) > 0
    THEN [b \in Bands |->
            LET lowBin == FrequencyToBin(ENERGY_CENTRES[b].low, sr, fft)
                highBin == FrequencyToBin(ENERGY_CENTRES[b].high, sr, fft)
                pooled == PooledLevels(snapshots, lowBin, highBin)
            IN  IF Len(pooled) > 0
                THEN FDiv(FSumFrom(FInt(0), pooled), FInt(Len(pooled)))
                ELSE NegInf]
    ELSE <<>>

\* analyseNoiseFloor (lines 55-99)
AnalyseNoiseFloor(rms, snapshots, sr, fft) ==
    LET avgRMS == FDiv(FSumFrom(FInt(0), rms), FInt(Len(rms)))
        peakRMS == MaxOf(NegInf, rms)
        averageDB == LinearToDB(avgRMS)
        peakDB == LinearToDB(peakRMS)
    IN  [averageDB |-> averageDB,
         peakDB |-> peakDB,
         estimatedDBA |-> [averageDB EXCEPT !.plus = 3],
         bandLevels |-> BandLevels(snapshots, sr, fft),
         rating |-> Rating(averageDB)]

---------------------------------------------------------------------------
(* The overtone detector *)

(* The harmonic product of a bin is kept as its logarithm: the sum of the dB
   values that lines 33-45 convert and multiply, -Infinity for a product of
   0.  The rounding of the 32-bit products is left out. *)

\* numHarmonics, thresholdDB and minDistance as detectOvertones leaves them.
NumHarmonics == 5
PeakThresholdDB == -60
MinDistance == 5

\* The peaks classified, the tolerance of a harmonic, the peaks counted.
TopPeaks == 16
HarmonicTolerance == F(1, 8, 100)
ConfidencePeaks == 10

HalfLength(spectrum, numHarmonics) == Len(spectrum) \div numHarmonics

\* hps[i] of lines 33-45; a read outside the array gives undefined.
Hps(spectrum, numHarmonics, i) ==
    IF i < 0 \/ i >= HalfLength(spectrum, numHarmonics) THEN NaN
    ELSE FSumFrom(At(spectrum, i),
                  [h \in 1..(numHarmonics - 1) |-> At(spectrum, i * (h + 1))])

\* maxVal before the loop: -Infinity, below a product of 0.
BelowAll == [k |-> "low", s |-> -1, n |-> 1, d |-> 1]

\* hps[i] > maxVal (line 53)
Exceeds(v, maxVal) ==
    IF maxVal.k = "low" THEN v.k # "nan" ELSE FLess(maxVal, v)

\* minBin (line 48)
MinBin(sr, fft) == FCeil(FDiv(FInt(20 * fft), FInt(sr)))

\* The loop of lines 52-57 from bin i on; maxBin is minBin itself (which may
\* be -0) while i has not moved.
RECURSIVE HpsScan(_, _, _, _, _, _)
HpsScan(spectrum, numHarmonics, minBin, i, maxVal, maxBin) ==
    IF ~(i < HalfLength(spectrum, numHarmonics)) THEN maxBin
    ELSE LET v == Hps(spectrum, numHarmonics, i)
         IN  IF Exceeds(v, maxVal)
             THEN HpsScan(spectrum, numHarmonics, minBin, i + 1, v,
                          IF i = FToInt(minBin) THEN minBin ELSE FInt(i))
             ELSE HpsScan(spectrum, numHarmonics, minBin, i + 1, maxVal, maxBin)

\* The loop of lines 52-57 ends: from -Infinity, i++ never reaches halfLength.
HpsReturns(sr, fft) == MinBin(sr, fft) # NegInf

\* maxBin after the loop: no iteration when minBin is NaN or +Infinity.
MaxBin(spectrum, sr, fft, numHarmonics) ==
    LET minBin == MinBin(sr, fft)
    IN  IF minBin.k # "fin" THEN minBin
        ELSE HpsScan(spectrum, numHarmonics, minBin, FToInt(minBin), BelowAll, minBin)

\* harmonicProductSpectrum (lines 23-60)
HarmonicProductSpectrum(spectrum, sr, fft, numHarmonics) ==
    FDiv(FMul(MaxBin(spectrum, sr, fft, numHarmonics), FInt(sr)), FInt(fft))

\* The test of lines 76-80.
IsPeak(spectrum, i) ==
    /\ FLess(FInt(PeakThresholdDB), At(spectrum, i))
    /\ FLess(At(spectrum, i - 1), At(spectrum, i))
    /\ FLess(At(spectrum, i + 1), At(spectrum, i))
    /\ FLess(At(spectrum, i - 2), At(spectrum, i))
    /\ FLess(At(spectrum, i + 2), At(spectrum, i))

\* The loop of lines 74-91 from bin i on.
RECURSIVE PeaksFrom(_, _, _, _, _)
PeaksFrom(spectrum, sr, fft, i, peaks) ==
    IF ~(i < Len(spectrum) - 2) THEN peaks
    ELSE IF /\ IsPeak(spectrum, i)
            /\ \/ Len(peaks) = 0
               \/ i - peaks[Len(peaks)].bin >= MinDistance
         THEN PeaksFrom(spectrum, sr, fft, i + 1,
                        Append(peaks, [bin |-> i,
                                       frequency |-> FDiv(FInt(i * sr), FInt(fft)),
                                       amplitude |-> At(spectrum, i)]))
         ELSE PeaksFrom(spectrum, sr, fft, i + 1, peaks)

\* The peaks left in the order of their bins.
SortPeaksInBinOrder(sorted, rest) == sorted \o rest

\* peaks.sort((a, b) => b.amplitude - a.amplitude): stable, loudest first.
RECURSIVE SortPeaks(_, _)
SortPeaks(sorted, rest) ==
    IF rest = <<>> THEN sorted
    ELSE LET p == Head(rest)
             ahead == Cardinality({j \in 1..Len(sorted) :
                                     ~FLess(sorted[j].amplitude, p.amplitude)})
         IN  SortPeaks(SubSeq(sorted, 1, ahead) \o <<p>>
                           \o SubSeq(sorted, ahead + 1, Len(sorted)),
                       Tail(rest))

\* findSpectralPeaks (lines 65-94)
FindSpectralPeaks(spectrum, sr, fft) ==
    SortPeaks(<<>>, PeaksFrom(spectrum, sr, fft, 2, <<>>))

\* The test of line 114 without its second half.
AcceptedByRound(ratio) == FLeq(FInt(1), FRound(ratio))

\* The test of line 114 on the ratio of line 111.
Accepted(ratio) ==
    /\ FLeq(FInt(1), FRound(ratio))
    /\ FLess(FAbs(FSub(ratio, FRound(ratio))), HarmonicTolerance)

\* The loop of lines 110-122 over the peaks it is given.
Harmonics(top, fundamental) ==
    LET matched == SelectSeq(top, LAMBDA p : Accepted(FDiv(p.frequency, fundamental)))
    IN  [j \in 1..Len(matched) |->
            [frequency |-> matched[j].frequency,
             amplitude |-> matched[j].amplitude,
             harmonicNumber |-> FRound(FDiv(matched[j].frequency, fundamental))]]

\* detectOvertones (lines 99-128)
DetectOvertones(spectrum, sr, fft) ==
    LET fundamental == HarmonicProductSpectrum(spectrum, sr, fft, NumHarmonics)
        peaks == FindSpectralPeaks(spectrum, sr, fft)
        harmonics == Harmonics(SubSeq(peaks, 1, Min(TopPeaks, Len(peaks))), fundamental)
        matchCount == Len(harmonics)
    IN  [fundamental |-> fundamental,
         harmonics |-> harmonics,
         confidence |-> IF Len(peaks) > 0
                        THEN FDiv(FInt(matchCount),
                                  FInt(Min(Len(peaks), ConfidencePeaks)))
                        ELSE FInt(0)]

---------------------------------------------------------------------------
(* The compatibility scorer *)

(* noiseFloorBands is <<>> when it is null and <<levels>> when it is an
   object, levels being a function from the bands that have an entry. *)

DEFAULT_NOISE_DB == -60

\* noiseFloorBands?.[key] ?? DEFAULT_NOISE_DB (lines 80 and 95)
NoiseLevel(noiseFloorBands, b) ==
    IF noiseFloorBands = <<>> THEN FInt(DEFAULT_NOISE_DB)
    ELSE IF b \in DOMAIN noiseFloorBands[1] THEN noiseFloorBands[1][b]
    ELSE FInt(DEFAULT_NOISE_DB)

\* headroom (line 82)
Headroom(input, b) == FSub(input.instrumentCentres[b], NoiseLevel(input.noiseFloorBands, b))

\* resonanceScore (lines 75-89)
ResonanceScore(input) ==
    LET headroomSum ==
            FSumFrom(FInt(0), [b \in Bands |-> FMax(FInt(0), Headroom(input, b))])
        avgHeadroom == FDiv(headroomSum, FInt(Len(ENERGY_CENTRES)))
    IN  FMin(FInt(40), FMul(FDiv(avgHeadroom, FInt(30)), FInt(40)))

\* richnessScore (lines 92-103)
RichnessScore(input) ==
    LET activatedCentres == Cardinality({b \in Bands : FLess(FInt(6), Headroom(input, b))})
    IN  FMul(FDiv(FInt(activatedCentres), FInt(Len(ENERGY_CENTRES))), FInt(35))

\* clarityScore (lines 107-109)
ClarityScore(input) ==
    LET harmonicBonus == FMin(FInt(1), FDiv(FInt(Len(input.harmonics)), FInt(6)))
        clarityRaw == FAdd(FMul(input.overtoneConfidence, F(1, 6, 10)),
                           FMul(harmonicBonus, F(1, 4, 10)))
    IN  FMul(clarityRaw, FInt(25))

\* computeCompatibilityScore (lines 71-112)
ComputeCompatibilityScore(input) ==
    FMax(FInt(0),
         FMin(FInt(100),
              FRound(FAdd(FAdd(ResonanceScore(input), RichnessScore(input)),
                          ClarityScore(input)))))

---------------------------------------------------------------------------
(* The note mapper *)

(* A frequency of the equal-tempered scale is kept as its distance from A4 in
   semitones: [k |-> "tet", s |-> s] stands for 440 * 2^(s/12), a whole
   number of semitones s, which is rational only when 12 divides s.  A
   frequency rounded to two decimals is a fraction of hundredths. *)

NOTE_NAMES == <<"C", "C#", "D", "D#", "E", "F", "F#", "G", "G#", "A", "A#", "B">>

Tet(s) == [k |-> "tet", s |-> s]

\* Math.round(440 * 2^(s/12) * 100) for the notes A0 (MIDI 21) to C8 (MIDI 108).
NoteHundredths ==
    <<2750, 2914, 3087, 3270, 3465, 3671, 3889, 4120,
      4365, 4625, 4900, 5191, 5500, 5827, 6174, 6541,
      6930, 7342, 7778, 8241, 8731, 9250, 9800, 10383,
      11000, 11654, 12347, 13081, 13859, 14683, 15556, 16481,
      17461, 18500, 19600, 20765, 22000, 23308, 24694, 26163,
      27718, 29366, 31113, 32963, 34923, 36999, 39200, 41530,
      44000, 46616, 49388, 52325, 55437, 58733, 62225, 65926,
      69846, 73999, 78399, 83061, 88000, 93233, 98777, 104650,
      110873, 117466, 124451, 131851, 139691, 147998, 156798, 166122,
      176000, 186466, 197553, 209300, 221746, 234932, 248902, 263702,
      279383, 295996, 313596, 332244, 352000, 372931, 395107, 418601>>

\* Math.round(exactFrequency * 100) / 100 (line 44) of the note s semitones
\* from A4.
RoundToHundredths(s) == Rat(NoteHundredths[s + 69 - 20], 100)

\* a % b of JavaScript: the sign of a.
JsRem(a, b) == IF a >= 0 THEN a % b ELSE -((-a) % b)

\* frequencyToNote (lines 27-47) of a frequency of the scale: 12 * log2(hz / 440)
\* is its semitones.
FrequencyToNote(f) ==
    LET semitones == f.s
        roundedSemitones == semitones
        cents == (semitones - roundedSemitones) * 100
        midi == 69 + roundedSemitones
        noteIndex == (JsRem(midi, 12) + 12) % 12
        octave == (midi \div 12) - 1
    IN  [noteName |-> NOTE_NAMES[noteIndex + 1],
         octave |-> octave,
         exactFrequency |-> RoundToHundredths(roundedSemitones),
         cents |-> cents]

\* NOTE_NAMES.indexOf(noteName) (line 53)
IndexOf(noteName) ==
    IF \E i \in 1..Len(NOTE_NAMES) : NOTE_NAMES[i] = noteName
    THEN (CHOOSE i \in 1..Len(NOTE_NAMES) : NOTE_NAMES[i] = noteName) - 1
    ELSE -1

\* noteToFrequency (lines 52-58)
NoteToFrequency(noteName, octave) ==
    LET index == IndexOf(noteName)
        midi == (octave + 1) * 12 + index
    IN  IF index = -1 THEN Rat(0, 1) ELSE Tet(midi - 69)

---------------------------------------------------------------------------
(* The compatibility scorer's frequencyToCentre *)

\* ENERGY_BANDS (lines 11-19), in the order of its keys.
ENERGY_BANDS ==
    << [key |-> "root", low |-> 32, high |-> 128],
       [key |-> "sacral", low |-> 128, high |-> 256],
       [key |-> "solarPlexus", low |-> 256, high |-> 384],
       [key |-> "heart", low |-> 384, high |-> 512],
       [key |-> "throat", low |-> 512, high |-> 768],
       [key |-> "thirdEye", low |-> 768, high |-> 1024],
       [key |-> "crown", low |-> 1024, high |-> 4000] >>

\* Line 197 with hz <= high in the place of hz < high.
InBandInclusive(f, band) == FLeq(FInt(band.low), f) /\ FLeq(f, FInt(band.high))

\* hz >= low && hz < high (line 197)
InBand(f, band) == FLeq(FInt(band.low), f) /\ FLess(f, FInt(band.high))

\* The loop of lines 196-198 from entry i on, then line 199.
RECURSIVE CentreFrom(_, _)
CentreFrom(f, i) ==
    IF i > Len(ENERGY_BANDS)
    THEN IF FLeq(FInt(1024), f) THEN "crown" ELSE "null"
    ELSE IF InBand(f, ENERGY_BANDS[i]) THEN ENERGY_BANDS[i].key
    ELSE CentreFrom(f, i + 1)

\* frequencyToCentre (lines 195-200); "null" is null.
FrequencyToCentre(f) == CentreFrom(f, 1)

---------------------------------------------------------------------------
(* The state of each part while another part runs *)

\* No call of detectTransients is under way.
TransientIdle ==
    /\ buffer = <<>>
    /\ config = DEFAULT_CONFIG
    /\ w = 0
    /\ lastDetectedSample = 0
    /\ events = <<>>
    /\ transient = <<>>
    /\ durationSeconds = Rat(0, 1)
    /\ segment = <<>>

\* No rt60 call is under way.
RT60Idle ==
    /\ impulseResponse = <<>>
    /\ decayCurve = <<>>
    /\ rt60 = Rat(0, 1)
    /\ quality = "poor"

\* useFFT has published no frame.
BandIdle ==
    /\ fftSize = 0
    /\ frequencyData = <<>>
    /\ energyCentres = <<>>
    /\ binsRead = <<>>

\* No listening window has been analysed.
NoiseIdle ==
    /\ samples = <<>>
    /\ frequencySnapshots = <<>>
    /\ noiseResult = <<>>

\* No spectrum has been given to the overtone detector.
OvertoneIdle ==
    /\ magnitudeSpectrum = <<>>
    /\ overtones = <<>>

\* No instrument has been scored.
ScoreIdle ==
    /\ scoringInput = <<>>
    /\ compatibilityScore = <<>>

\* No frequency has been given to the note mapper or to frequencyToCentre.
FrequencyIdle ==
    /\ hz = <<>>
    /\ note = <<>>
    /\ recovered = <<>>
    /\ centre = <<>>

\* The clap test is mounted and nothing has been clicked.
CaptureIdle ==
    /\ phase = "idle"
    /\ pendingStarts = 0
    /\ isRecording = FALSE
    /\ results = <<>>
    /\ error = "null"
    /\ currentPeak = 0
    /\ processorRef = "null"
    /\ orphaned = FALSE
    /\ bufferRef = <<>>
    /\ arrived = <<>>
    /\ pendingBlock = <<>>
    /\ returned = "none"

\* useAudioStream as mounted (lines 29-36): start() was never called.
StreamIdle ==
    /\ calls = <<>>
    /\ state = [isActive |-> FALSE, isPermissionGranted |-> FALSE, error |-> "null"]
    /\ streamRef = 0
    /\ sourceRef = 0
    /\ liveStreams = {}
    /\ lastCall = "none"

\* No analyser has been made and no frame published or collected.
FrameIdle ==
    /\ heap = <<>>
    /\ analyser = <<>>
    /\ fftData = <<>>
    /\ rmsSamplesRef = <<>>
    /\ freqSnapshotsRef = <<>>
    /\ collectDue = FALSE

---------------------------------------------------------------------------
(* detectTransients as a state machine *)

\* A window of windowSize equal samples.
Window(a, windowSize) == [i \in 1..windowSize |-> a]

Amplitudes == {0, 5, -10}

\* The checked recordings: a steady background of bg windows, then up to
\* MaxTailWindows windows of any of the amplitudes, then an incomplete window
\* at the background's level.
Recordings(windowSize) ==
    { Flatten([i \in 1..bg |-> Window(q, windowSize)])
        \o Flatten([i \in 1..t |-> Window(tail[i], windowSize)])
        \o [i \in 1..rest |-> q] :
        <<bg, q, t, rest>> \in {3, AvgWindows} \X {0, 1} \X (0..MaxTailWindows)
                                \X (0..(windowSize - 1)),
        tail \in [1..MaxTailWindows -> Amplitudes] }

Configs ==
    { [DEFAULT_CONFIG EXCEPT !.windowSize = ws, !.minAmplitude = ma,
                             !.minIntervalSeconds = mi, !.thresholdDB = th] :
        ws \in 1..MaxWindowSize, ma \in {0, 1, 6},
        mi \in {Rat(3, 10)}, th \in {6} }

SampleRates == {5, 10}

\* detectTransients is called: lines 43-67.
DetectTransientsInit ==
    /\ pc = "scan"
    /\ sampleRate \in SampleRates
    /\ config \in Configs
    /\ buffer \in Recordings(config.windowSize)
    /\ w = AvgWindowSize(buffer, config.windowSize)
    /\ lastDetectedSample = -MinIntervalSamples(config.minIntervalSeconds, sampleRate)
    /\ events = <<>>
    /\ transient = <<>>
    /\ durationSeconds = Rat(0, 1)
    /\ segment = <<>>
    /\ RT60Idle
    /\ BandIdle
    /\ NoiseIdle
    /\ OvertoneIdle
    /\ ScoreIdle
    /\ FrequencyIdle
    /\ CaptureIdle
    /\ StreamIdle
    /\ FrameIdle

\* One pass of the loop of lines 69-100.
DetectTransientsWindow ==
    /\ pc = "scan"
    /\ w < NumWindows(buffer, config.windowSize)
    /\ LET sampleIndex == w * config.windowSize
           record ==
               /\ Fires(buffer, config, w)
               /\ GateOpen(sampleIndex, lastDetectedSample,
                           MinIntervalSamples(config.minIntervalSeconds, sampleRate))
               /\ Loud(buffer, config, w)
       IN  /\ events' = IF record
                        THEN Append(events,
                                 [sampleIndex |-> sampleIndex,
                                  timeSeconds |-> Rat(sampleIndex, sampleRate),
                                  peakAmplitude |-> Peak(buffer, config.windowSize, w),
                                  energyRatio |-> Ratio(buffer, config.windowSize, w)])
                        ELSE events
           /\ lastDetectedSample' = IF record THEN sampleIndex ELSE lastDetectedSample
    /\ w' = w + 1
    /\ UNCHANGED <<streamVars, frameVars,
                   pc, sampleRate, buffer, config, transient, durationSeconds, segment,
                   rt60Vars, bandVars, noiseVars, overtoneVars, scoreVars, frequencyVars, captureVars>>

\* The loop ends and the events are returned: line 102.
DetectTransientsReturn ==
    /\ pc = "scan"
    /\ w >= NumWindows(buffer, config.windowSize)
    /\ pc' = "done"
    /\ UNCHANGED <<streamVars, frameVars,
                   sampleRate, transientVars, rt60Vars, bandVars, noiseVars,
                   overtoneVars, scoreVars, frequencyVars, captureVars>>

\* The durations asked for: negative, 0.3 s and the 3 s of stopCapture.
Durations == {Rat(-1, 2), Rat(3, 10), Rat(3, 1)}

\* An event at sample i that did not come from this buffer.
EventAt(i, sr) ==
    [sampleIndex |-> i,
     timeSeconds |-> Rat(i, sr),
     peakAmplitude |-> 10,
     energyRatio |-> Rat(10, 1)]

\* The events handed to extractImpulseResponse: those detected, and events at
\* the start of the buffer, at its end and past it.
CandidateEvents ==
    {events[j] : j \in 1..Len(events)}
        \cup {EventAt(i, sampleRate) :
                i \in {0, Len(buffer), Len(buffer) + 1}}

\* extractImpulseResponse is called on the buffer and returns.
ExtractImpulseResponseCall ==
    /\ pc = "done"
    /\ \E event \in CandidateEvents, duration \in Durations :
          /\ transient' = event
          /\ durationSeconds' = duration
          /\ segment' = ExtractImpulseResponse(buffer, event, duration, sampleRate)
    /\ pc' = "extracted"
    /\ UNCHANGED <<streamVars, frameVars,
                   sampleRate, buffer, config, w, lastDetectedSample, events, rt60Vars,
                   bandVars, noiseVars, overtoneVars, scoreVars, frequencyVars, captureVars>>

SpecTransient ==
    DetectTransientsInit
    /\ [][DetectTransientsWindow \/ DetectTransientsReturn
             \/ ExtractImpulseResponseCall]_vars

---------------------------------------------------------------------------
(* The rt60 calls *)

\* Bounds of the checked impulse responses and decay curves.
MaxImpulseLen == 4
MaxCurveLen == 4
MaxPad == 2


\* Impulse samples: 57^2 / 1^2 is a decay of more than 35 dB, and the energy
\* after 7, 7, 1 is exactly 20 dB under the energy of 7, 7, 1, 1.
ImpulseSamples == {0, 1, -3, 7, 18, 57}

\* Levels for a decay curve of any shape: 0 dB, +3 dB, -6 dB, exactly -10 dB,
\* -26 dB and -Infinity.
CurveLevels == {Rat(1, 1), Rat(2, 1), Rat(1, 4), Rat(1, 10), Rat(1, 400), Rat(0, 1)}

RT60Rates == {1, 4}

\* analyseRT60 (lines 98-114) is called on an impulse response, or
\* estimateRT60 (line 44) on a decay curve.
RT60Init ==
    /\ sampleRate \in RT60Rates
    /\ \/ /\ pc = "analyse"
          /\ impulseResponse \in SeqsUpTo(ImpulseSamples, MaxImpulseLen)
          /\ decayCurve = <<>>
       \/ /\ pc = "estimate"
          /\ impulseResponse = <<>>
          /\ decayCurve \in SeqsUpTo(CurveLevels, MaxCurveLen)
    /\ rt60 = Rat(0, 1)
    /\ quality = "poor"
    /\ TransientIdle
    /\ BandIdle
    /\ NoiseIdle
    /\ OvertoneIdle
    /\ ScoreIdle
    /\ FrequencyIdle
    /\ CaptureIdle
    /\ StreamIdle
    /\ FrameIdle

\* analyseRT60 (lines 98-114)
AnalyseRT60 ==
    /\ pc = "analyse"
    /\ decayCurve' = SchroederIntegration(impulseResponse)
    /\ rt60' = EstimateRT60(decayCurve', sampleRate)
    /\ quality' = Quality(decayCurve')
    /\ pc' = "analysed"
    /\ UNCHANGED <<streamVars, frameVars,
                   sampleRate, impulseResponse, transientVars, bandVars, noiseVars,
                   overtoneVars, scoreVars, frequencyVars, captureVars>>

\* estimateRT60 (lines 44-79) on a curve handed in by the caller
EstimateRT60Call ==
    /\ pc = "estimate"
    /\ rt60' = EstimateRT60(decayCurve, sampleRate)
    /\ pc' = "estimated"
    /\ UNCHANGED <<streamVars, frameVars,
                   sampleRate, impulseResponse, decayCurve, quality, transientVars,
                   bandVars, noiseVars, overtoneVars, scoreVars, frequencyVars, captureVars>>

SpecRT60 == RT60Init /\ [][AnalyseRT60 \/ EstimateRT60Call]_vars

---------------------------------------------------------------------------
(* useFFT's tick *)

\* Bound of the checked frames.
MaxFrameLen == 7

\* The levels of a frame: two finite levels and the -Infinity of a silent bin.
FrameLevels == {FInt(-30), FInt(-90), NegInf}

\* Sample rate and FFT size, chosen so that the band edges fall on the first
\* bins: 128 Hz, 512 Hz and about 172 Hz per bin.
Resolutions == {<<8192, 64>>, <<8192, 16>>, <<44100, 256>>}

\* The analyser holds a frame when tick runs.
TickInit ==
    /\ pc = "tick"
    /\ \E r \in Resolutions : sampleRate = r[1] /\ fftSize = r[2]
    /\ frequencyData \in SeqsUpTo(FrameLevels, MaxFrameLen)
    /\ energyCentres = <<>>
    /\ binsRead = <<>>
    /\ TransientIdle
    /\ RT60Idle
    /\ NoiseIdle
    /\ OvertoneIdle
    /\ ScoreIdle
    /\ FrequencyIdle
    /\ CaptureIdle
    /\ StreamIdle
    /\ FrameIdle

\* tick (useFFT.ts lines 44-68): bandEnergy for each band, then setData.
Tick ==
    /\ pc = "tick"
    /\ LET e == [b \in Bands |->
                    BandEnergy(frequencyData, ENERGY_CENTRES[b].low,
                               ENERGY_CENTRES[b].high, sampleRate, fftSize)]
       IN  /\ energyCentres' = [b \in Bands |-> e[b].value]
           /\ binsRead' = [b \in Bands |-> e[b].read]
    /\ pc' = "published"
    /\ UNCHANGED <<streamVars, frameVars,
                   sampleRate, fftSize, frequencyData, transientVars, rt60Vars,
                   noiseVars, overtoneVars, scoreVars, frequencyVars, captureVars>>

SpecBand == TickInit /\ [][Tick]_vars

---------------------------------------------------------------------------
(* The end of the ambient listening window *)

\* Bounds of the checked listening windows.
MaxSamples == 3
MaxSnapshots == 2

\* RMS amplitudes in units of 1e-10: silence, the floor itself, about -55 dB,
\* exactly -40 dB and just under -30 dB.
RmsValues ==
    {FInt(0), FInt(1), FInt(17782794), FInt(100000000), FInt(316227766)}

SnapshotFrames ==
    { <<FInt(-90)>>,
      <<FInt(-30), FInt(-90), FInt(-30)>>,
      <<FInt(-90), FInt(-30), FInt(-50)>>,
      <<FInt(-30), NegInf, FInt(-90), FInt(-90), FInt(-30), FInt(-30), FInt(-90)>> }

\* The listening window is over (AmbientListen, lines 63-64) with what the
\* effect of lines 54-60 collected: nothing, when no frame came.
ListenInit ==
    /\ pc = "listening"
    /\ \E r \in Resolutions : sampleRate = r[1] /\ fftSize = r[2]
    /\ samples \in SeqsUpTo(RmsValues, MaxSamples)
    /\ frequencySnapshots \in SeqsUpTo(SnapshotFrames, MaxSnapshots)
    /\ noiseResult = <<>>
    /\ frequencyData = <<>>
    /\ energyCentres = <<>>
    /\ binsRead = <<>>
    /\ TransientIdle
    /\ RT60Idle
    /\ OvertoneIdle
    /\ ScoreIdle
    /\ FrequencyIdle
    /\ CaptureIdle
    /\ StreamIdle
    /\ FrameIdle

\* The completion effect of AmbientListen (lines 63-77): analyseNoiseFloor
\* on what was collected, then setNoiseResult.
CompleteListening ==
    /\ pc = "listening"
    /\ noiseResult' = AnalyseNoiseFloor(samples, frequencySnapshots, sampleRate, fftSize)
    /\ pc' = "complete"
    /\ UNCHANGED <<streamVars, frameVars,
                   sampleRate, samples, frequencySnapshots, transientVars, rt60Vars,
                   bandVars, overtoneVars, scoreVars, frequencyVars, captureVars>>

SpecNoise == ListenInit /\ [][CompleteListening]_vars

---------------------------------------------------------------------------
(* A call of detectOvertones *)

\* The most peaks of a checked spectrum's comb.
MaxTeeth == 18

SpectrumLengths == {0, 4, 30, 96}

SpectrumFloors == {FInt(-100), NegInf}

CombSpacings == {5, 6, 8}

\* A lone peak off the comb: none, below the comb, between two of its teeth.
ExtraBins == {-1, 3, 13}

CombShapes == {"falling", "rising", "level"}

\* The level of the k-th tooth of a comb.
ToothLevel(shape, k) ==
    CASE shape = "falling" -> FInt(-20 - k)
      [] shape = "rising" -> FInt(-40 + k)
      [] shape = "level" -> FInt(-30)

\* A floor with peaks at the bins spacing, 2 * spacing, ..., teeth * spacing
\* and at the extra bin.
CombSpectrum(len, floor, spacing, teeth, shape, extra) ==
    [j \in 1..len |->
        LET i == j - 1
        IN  IF i >= spacing /\ i % spacing = 0 /\ i \div spacing <= teeth
            THEN ToothLevel(shape, i \div spacing)
            ELSE IF i = extra THEN FInt(-25) ELSE floor]

\* Sample rate and FFT size: 20 Hz, 10 Hz and 2 Hz a bin, and the degenerate
\* ones that make the fundamental zero, infinite or NaN.
OvertoneResolutions ==
    {<<2560, 128>>, <<2560, 256>>, <<256, 128>>,
     <<0, 128>>, <<2560, 0>>, <<0, 0>>, <<-2560, 128>>, <<-44100, 2048>>,
     <<0, -128>>}

DetectInit ==
    /\ pc = "detect"
    /\ \E r \in OvertoneResolutions : sampleRate = r[1] /\ fftSize = r[2]
    /\ \E len \in SpectrumLengths, floor \in SpectrumFloors, spacing \in CombSpacings,
          teeth \in 0..MaxTeeth, shape \in CombShapes,
          extra \in ExtraBins :
            magnitudeSpectrum = CombSpectrum(len, floor, spacing, teeth, shape, extra)
    /\ overtones = <<>>
    /\ frequencyData = <<>>
    /\ energyCentres = <<>>
    /\ binsRead = <<>>
    /\ TransientIdle
    /\ RT60Idle
    /\ NoiseIdle
    /\ ScoreIdle
    /\ FrequencyIdle
    /\ CaptureIdle
    /\ StreamIdle
    /\ FrameIdle

\* detectOvertones returns, when its HPS step does.
DetectOvertonesCall ==
    /\ pc = "detect"
    /\ HpsReturns(sampleRate, fftSize)
    /\ overtones' = DetectOvertones(magnitudeSpectrum, sampleRate, fftSize)
    /\ pc' = "detected"
    /\ UNCHANGED <<streamVars, frameVars,
                   sampleRate, magnitudeSpectrum, transientVars, rt60Vars, bandVars,
                   noiseVars, scoreVars, frequencyVars, captureVars>>

SpecOvertone == DetectInit /\ [][DetectOvertonesCall]_vars

---------------------------------------------------------------------------
(* A call of computeCompatibilityScore *)

\* The most harmonics of a scored instrument.
MaxHarmonics == 8

\* Band levels of an instrument: -Infinity is what bandEnergy gives for a
\* band with a silent bin.
CentreLevels == {NegInf, FInt(-80), FInt(-50), FInt(-20)}

NoiseBandLevels == {NegInf, FInt(-70), FInt(-40)}

Confidences == {FInt(0), F(1, 1, 2), FInt(1), F(1, 8, 5)}

\* Instrument levels: one for the root, one for the sacral, one for the rest.
InstrumentCentres ==
    {[b \in Bands |-> IF b = 1 THEN l[1] ELSE IF b = 2 THEN l[2] ELSE l[3]] :
        l \in [1..3 -> CentreLevels]}

\* No noise floor, one without band levels, one with a level for each band.
NoiseFloors ==
    {<<>>, << <<>> >>}
        \cup {<<[b \in Bands |-> IF b = 1 THEN l[1] ELSE l[2]]>> :
                l \in [1..2 -> NoiseBandLevels]}

ScoreInit ==
    /\ pc = "score"
    /\ sampleRate = 44100
    /\ scoringInput \in
           [instrumentCentres : InstrumentCentres,
            noiseFloorBands : NoiseFloors,
            overtoneConfidence : Confidences,
            harmonics : {[i \in 1..k |-> [harmonicNumber |-> i]] : k \in 0..MaxHarmonics}]
    /\ compatibilityScore = <<>>
    /\ TransientIdle
    /\ RT60Idle
    /\ BandIdle
    /\ NoiseIdle
    /\ OvertoneIdle
    /\ FrequencyIdle
    /\ CaptureIdle
    /\ StreamIdle
    /\ FrameIdle

\* computeCompatibilityScore returns.
Score ==
    /\ pc = "score"
    /\ compatibilityScore' = ComputeCompatibilityScore(scoringInput)
    /\ pc' = "scored"
    /\ UNCHANGED <<streamVars, frameVars,
                   sampleRate, scoringInput, transientVars, rt60Vars, bandVars,
                   noiseVars, overtoneVars, frequencyVars, captureVars>>

SpecScore == ScoreInit /\ [][Score]_vars

---------------------------------------------------------------------------
(* The note mapper's round trip *)

\* The frequencies of the notes A0 to C8.
NoteFrequencies == {Tet(i + 20 - 69) : i \in DOMAIN NoteHundredths}

NoteInit ==
    /\ pc = "note"
    /\ sampleRate = 44100
    /\ hz \in NoteFrequencies
    /\ note = <<>>
    /\ recovered = <<>>
    /\ centre = <<>>
    /\ TransientIdle
    /\ RT60Idle
    /\ BandIdle
    /\ NoiseIdle
    /\ OvertoneIdle
    /\ ScoreIdle
    /\ CaptureIdle
    /\ StreamIdle
    /\ FrameIdle

\* frequencyToNote returns.
FrequencyToNoteCall ==
    /\ pc = "note"
    /\ note' = FrequencyToNote(hz)
    /\ pc' = "named"
    /\ UNCHANGED <<streamVars, frameVars,
                   sampleRate, hz, recovered, centre, transientVars, rt60Vars, bandVars,
                   noiseVars, overtoneVars, scoreVars, captureVars>>

\* noteToFrequency returns for the name and octave of the note.
NoteToFrequencyCall ==
    /\ pc = "named"
    /\ recovered' = NoteToFrequency(note.noteName, note.octave)
    /\ pc' = "recovered"
    /\ UNCHANGED <<streamVars, frameVars,
                   sampleRate, hz, note, centre, transientVars, rt60Vars, bandVars,
                   noiseVars, overtoneVars, scoreVars, captureVars>>

SpecNote == NoteInit /\ [][FrequencyToNoteCall \/ NoteToFrequencyCall]_vars

---------------------------------------------------------------------------
(* A call of frequencyToCentre *)

\* Distances in half Hz from a band edge.
EdgeOffsets == {-2, -1, 0, 1, 2, 40}

\* Frequencies at and around every band edge, silence, negative, far above
\* the last band, and the values that are not finite.
CentreFrequencies ==
    {F(1, 2 * ENERGY_BANDS[i].low + o, 2) : i \in 1..Len(ENERGY_BANDS), o \in EdgeOffsets}
        \cup {F(1, 2 * 4000 + o, 2) : o \in EdgeOffsets}
        \cup {FInt(0), FInt(-32), FInt(-2000), F(1, 1, 2), FInt(20000), FInt(1000000)}
        \cup {PosInf, NegInf, NaN}

CentreInit ==
    /\ pc = "centre"
    /\ sampleRate = 44100
    /\ hz \in CentreFrequencies
    /\ note = <<>>
    /\ recovered = <<>>
    /\ centre = <<>>
    /\ TransientIdle
    /\ RT60Idle
    /\ BandIdle
    /\ NoiseIdle
    /\ OvertoneIdle
    /\ ScoreIdle
    /\ CaptureIdle
    /\ StreamIdle
    /\ FrameIdle

\* frequencyToCentre returns.
FrequencyToCentreCall ==
    /\ pc = "centre"
    /\ centre' = FrequencyToCentre(hz)
    /\ pc' = "mapped"
    /\ UNCHANGED <<streamVars, frameVars,
                   sampleRate, hz, note, recovered, transientVars, rt60Vars, bandVars,
                   noiseVars, overtoneVars, scoreVars, captureVars>>

SpecCentre == CentreInit /\ [][FrequencyToCentreCall]_vars

---------------------------------------------------------------------------
(* The clap test: ClapTest and useImpulseCapture *)

(* One sample of a recorded block stands for a window of 512 equal samples,
   so the block of 4096 samples that the ScriptProcessor delivers is
   BlockWindows samples long and detectTransients runs with a window of 1.
   Amplitudes are in tenths of full scale, as in the detector's model. *)
BlockWindows == 8

\* ctx.sampleRate (line 98) at that scale.
CaptureRate == 10

\* The configuration detectTransients gets from line 101: the default one.
CaptureConfig == [DEFAULT_CONFIG EXCEPT !.windowSize = 1]

\* Bounds of the checked sessions: the blocks recorded and the startRecording
\* calls waiting at once.
MaxBlocks == 3
MaxPendingStarts == 2

\* The blocks the microphone delivers: a steady noise, and a clap in a steady
\* noise.
Blocks ==
    { Window(1, BlockWindows),
      [i \in 1..BlockWindows |-> IF i = 6 THEN 10 ELSE IF i = 7 THEN 5 ELSE 1] }

NoAudioCaptured == "No audio was captured. Please try again."
NoClapsDetected == "No claps detected. Try clapping louder or closer to the microphone."

\* stopCapture treating a recording without transients as a capture without
\* results (lines 103-106 left out).
StopCaptureNoClapTest(chunks) ==
    LET fullBuffer == Flatten(chunks)
        transients == DetectTransients(fullBuffer, CaptureRate, CaptureConfig)
        captureResults ==
            [j \in 1..Len(transients) |->
                LET impulse == ExtractImpulseResponse(fullBuffer, transients[j],
                                                      Rat(3, 1), CaptureRate)
                IN  [transient |-> transients[j],
                     impulseResponse |-> impulse,
                     rt60 |-> AnalyseRT60Result(impulse, CaptureRate)]]
    IN  IF Len(chunks) = 0
        THEN [error |-> NoAudioCaptured, results |-> results,
              bufferRef |-> chunks, returned |-> <<>>]
        ELSE [error |-> error, results |-> captureResults,
              bufferRef |-> <<>>, returned |-> captureResults]

\* stopCapture from line 83 on: what it leaves in error, results and
\* bufferRef.current, and what it returns.
StopCapture(chunks) ==
    LET fullBuffer == Flatten(chunks)
        transients == DetectTransients(fullBuffer, CaptureRate, CaptureConfig)
        captureResults ==
            [j \in 1..Len(transients) |->
                LET impulse == ExtractImpulseResponse(fullBuffer, transients[j],
                                                      Rat(3, 1), CaptureRate)
                IN  [transient |-> transients[j],
                     impulseResponse |-> impulse,
                     rt60 |-> AnalyseRT60Result(impulse, CaptureRate)]]
    IN  IF Len(chunks) = 0
        THEN [error |-> NoAudioCaptured, results |-> results,
              bufferRef |-> chunks, returned |-> <<>>]
        ELSE IF Len(transients) = 0
        THEN [error |-> NoClapsDetected, results |-> results,
              bufferRef |-> chunks, returned |-> <<>>]
        ELSE [error |-> error, results |-> captureResults,
              bufferRef |-> <<>>, returned |-> captureResults]

CaptureInit ==
    /\ pc = "capture"
    /\ sampleRate = CaptureRate
    /\ CaptureIdle
    /\ StreamIdle
    /\ FrameIdle
    /\ TransientIdle
    /\ RT60Idle
    /\ BandIdle
    /\ NoiseIdle
    /\ OvertoneIdle
    /\ ScoreIdle
    /\ FrequencyIdle

\* The Start button of the idle phase: startRecording runs up to its await
\* (ClapTest, lines 48-49).
ClickStart ==
    /\ phase = "idle"
    /\ pendingStarts < MaxPendingStarts
    /\ pendingStarts' = pendingStarts + 1
    /\ UNCHANGED <<streamVars, frameVars,
                   pc, sampleRate, phase, isRecording, results, error, currentPeak,
                   processorRef, orphaned, bufferRef, arrived, pendingBlock, returned,
                   transientVars, rt60Vars, bandVars, noiseVars, overtoneVars, scoreVars,
                   frequencyVars>>

\* audioStream.start() gives no source: startRecording returns (line 50).
StartRefused ==
    /\ pendingStarts > 0
    /\ pendingStarts' = pendingStarts - 1
    /\ UNCHANGED <<streamVars, frameVars,
                   pc, sampleRate, phase, isRecording, results, error, currentPeak,
                   processorRef, orphaned, bufferRef, arrived, pendingBlock, returned,
                   transientVars, rt60Vars, bandVars, noiseVars, overtoneVars, scoreVars,
                   frequencyVars>>

\* audioStream.start() gives a source: startCapture (useImpulseCapture, lines
\* 44-71) and setPhase("recording").  A processor that processorRef held
\* stays connected.  The recording starts here.
StartCapture ==
    /\ pendingStarts > 0
    /\ pendingStarts' = pendingStarts - 1
    /\ bufferRef' = <<>>
    /\ arrived' = <<>>
    /\ error' = "null"
    /\ results' = <<>>
    /\ orphaned' = (orphaned \/ processorRef = "node")
    /\ processorRef' = "node"
    /\ isRecording' = TRUE
    /\ phase' = "recording"
    /\ UNCHANGED <<streamVars, frameVars,
                   pc, sampleRate, currentPeak, pendingBlock, returned, transientVars,
                   rt60Vars, bandVars, noiseVars, overtoneVars, scoreVars, frequencyVars>>

\* onaudioprocess of a connected processor (lines 55-66).  The microphone's
\* block reaches every connected processor, the one connected first first:
\* pendingBlock holds it until the processor connected last has had it too.
OnAudioProcess ==
    /\ processorRef = "node" \/ orphaned
    /\ Len(bufferRef) < MaxBlocks
    /\ \E input \in (IF pendingBlock = <<>> THEN Blocks ELSE {pendingBlock}) :
          /\ bufferRef' = Append(bufferRef, input)
          /\ currentPeak' = Peak(input, Len(input), 0)
          /\ arrived' = IF pendingBlock = <<>> /\ isRecording
                         THEN Append(arrived, input)
                         ELSE arrived
          /\ pendingBlock' = IF pendingBlock = <<>> /\ processorRef = "node" /\ orphaned
                              THEN input
                              ELSE <<>>
    /\ UNCHANGED <<streamVars, frameVars,
                   pc, sampleRate, phase, pendingStarts, isRecording, results, error,
                   processorRef, orphaned, returned, transientVars, rt60Vars, bandVars,
                   noiseVars, overtoneVars, scoreVars, frequencyVars>>

\* The Stop button of the recording phase: stopRecording (ClapTest, lines
\* 57-67), that is stopCapture (useImpulseCapture, lines 73-123) and
\* setPhase("done").
ClickStop ==
    /\ phase = "recording"
    /\ isRecording' = FALSE
    /\ currentPeak' = 0
    /\ processorRef' = "null"
    /\ \E outcome \in {StopCapture(bufferRef)} :
           /\ error' = outcome.error
           /\ results' = outcome.results
           /\ bufferRef' = outcome.bufferRef
           /\ returned' = outcome.returned
    /\ pendingBlock' = <<>>
    /\ phase' = "done"
    /\ UNCHANGED <<streamVars, frameVars,
                   pc, sampleRate, pendingStarts, orphaned, arrived, transientVars,
                   rt60Vars, bandVars, noiseVars, overtoneVars, scoreVars, frequencyVars>>

\* Try Again of the done phase with an error (ClapTest, lines 193-196):
\* reset (useImpulseCapture, lines 125-129) and setPhase("idle").
ClickTryAgain ==
    /\ phase = "done"
    /\ error # "null"
    /\ results' = <<>>
    /\ error' = "null"
    /\ bufferRef' = <<>>
    /\ phase' = "idle"
    /\ UNCHANGED <<streamVars, frameVars,
                   pc, sampleRate, pendingStarts, isRecording, currentPeak, processorRef,
                   orphaned, arrived, pendingBlock, returned, transientVars, rt60Vars,
                   bandVars, noiseVars, overtoneVars, scoreVars, frequencyVars>>

SpecCapture ==
    CaptureInit
    /\ [][ClickStart \/ StartRefused \/ StartCapture \/ OnAudioProcess \/ ClickStop
             \/ ClickTryAgain]_vars

---------------------------------------------------------------------------
(* useAudioStream: start() and stop() *)

\* Bound of the checked sessions: the calls of start().
MaxStarts == 2

AccessDenied == "Microphone access denied. Please grant permission to continue."

\* The hook is mounted (lines 29-36).
StreamInit ==
    /\ pc = "stream"
    /\ sampleRate = 44100
    /\ StreamIdle
    /\ FrameIdle
    /\ CaptureIdle
    /\ TransientIdle
    /\ RT60Idle
    /\ BandIdle
    /\ NoiseIdle
    /\ OvertoneIdle
    /\ ScoreIdle
    /\ FrequencyIdle

\* What the actions of the hook leave alone.
OutsideStream ==
    <<pc, sampleRate, transientVars, rt60Vars, bandVars, noiseVars, overtoneVars,
      scoreVars, frequencyVars, captureVars, frameVars>>

\* start() is called and runs up to its first await (lines 38-43).
Start ==
    /\ Len(calls) < MaxStarts
    /\ calls' = Append(calls, "resumeAudioContext")
    /\ state' = [state EXCEPT !.error = "null"]
    /\ lastCall' = "start"
    /\ UNCHANGED <<streamRef, sourceRef, liveStreams, OutsideStream>>

\* resumeAudioContext() resolves and the microphone is asked for (line 46).
RequestMicrophone ==
    \E c \in 1..Len(calls) :
        /\ calls[c] = "resumeAudioContext"
        /\ calls' = [calls EXCEPT ![c] = "getMicrophoneStream"]
        /\ UNCHANGED <<state, streamRef, sourceRef, liveStreams, lastCall, OutsideStream>>

\* The rest of start() with the stream in streamRef.current: createMicSource,
\* setState and return (lines 56-66).
FinishStart(c) ==
    /\ sourceRef' = c
    /\ state' = [isActive |-> TRUE, isPermissionGranted |-> TRUE, error |-> "null"]
    /\ calls' = [calls EXCEPT ![c] = "returned"]

\* getUserMedia resolves with a stream of live tracks (lines 46-47); start()
\* runs on to its end when the context is running, and to the await of line
\* 53 when it is suspended.
MicrophoneGranted ==
    \E c \in 1..Len(calls) :
        /\ calls[c] = "getMicrophoneStream"
        /\ liveStreams' = liveStreams \cup {c}
        /\ streamRef' = c
        /\ \/ FinishStart(c)
           \/ /\ calls' = [calls EXCEPT ![c] = "resume"]
              /\ UNCHANGED <<sourceRef, state>>
        /\ UNCHANGED <<lastCall, OutsideStream>>

\* audioCtx.resume() of line 53 resolves: lines 56-66.
ContextResumed ==
    \E c \in 1..Len(calls) :
        /\ calls[c] = "resume"
        /\ FinishStart(c)
        /\ UNCHANGED <<streamRef, liveStreams, lastCall, OutsideStream>>

\* getUserMedia rejects: the catch of lines 67-80.
MicrophoneDenied ==
    \E c \in 1..Len(calls) :
        /\ calls[c] = "getMicrophoneStream"
        /\ state' = [isActive |-> FALSE, isPermissionGranted |-> FALSE, error |-> AccessDenied]
        /\ calls' = [calls EXCEPT ![c] = "returned"]
        /\ UNCHANGED <<streamRef, sourceRef, liveStreams, lastCall, OutsideStream>>

\* stop() (lines 83-93): the tracks of the stream held are stopped, the
\* source held is disconnected.
Stop ==
    /\ liveStreams' = liveStreams \ {streamRef}
    /\ streamRef' = 0
    /\ sourceRef' = 0
    /\ state' = [state EXCEPT !.isActive = FALSE]
    /\ lastCall' = "stop"
    /\ UNCHANGED <<calls, OutsideStream>>

SpecStream ==
    StreamInit
    /\ [][Start \/ RequestMicrophone \/ MicrophoneGranted \/ ContextResumed
             \/ MicrophoneDenied \/ Stop]_vars

---------------------------------------------------------------------------
(* useFFT and AmbientListen: the frames published and collected *)

(* A Float32Array is an address of heap, and heap[a] is what the array at a
   holds, so that two references to one array are told from two arrays with
   equal contents. *)

\* Bound of the checked listening windows: the arrays allocated.
MaxArrays == 10

\* new Float32Array(source) giving source itself back.
NewFloat32ArrayView(h, a) ==
    [heap |-> h, ref |-> a]

\* new Float32Array(source) with a typed array for source (useFFT.ts lines
\* 63-64, part_002 line 59): a new array with the values source holds now.
NewFloat32Array(h, a) ==
    [heap |-> Append(h, h[a]), ref |-> Len(h) + 1]

\* The frames the analyser writes into its buffers: levels in dB, and samples
\* in tenths of full scale.
FrequencyFrames == { <<a, b>> : a \in {FInt(-30), FInt(-90)}, b \in {FInt(-30), FInt(-90)} }

TimeDomainFrames == { <<0, 0>>, <<7, 1>> }

\* Math.sqrt on the whole numbers whose root is whole, as those of the
\* checked frames are.
Sqrt(n) == CHOOSE r \in 0..n : r * r <= n /\ (r + 1) * (r + 1) > n

\* computeRMS (noiseFloor.ts lines 33-39)
ComputeRMS(samplesBuffer) ==
    Sqrt(SumSeq([i \in 1..Len(samplesBuffer) |-> samplesBuffer[i] * samplesBuffer[i]])
            \div Len(samplesBuffer))

\* AmbientListen is listening: startListening (part_002 lines 31-40) has
\* emptied the two lists and fft.connect has made the analyser, whose two
\* buffers (fftAnalyser.ts lines 29-30) are filled with zeros.
FrameInit ==
    /\ pc = "frames"
    /\ \E r \in Resolutions : sampleRate = r[1] /\ fftSize = r[2]
    /\ heap = << <<FInt(0), FInt(0)>>, <<0, 0>> >>
    /\ analyser = [frequencyData |-> 1, timeDomainData |-> 2]
    /\ fftData = <<>>
    /\ rmsSamplesRef = <<>>
    /\ freqSnapshotsRef = <<>>
    /\ collectDue = FALSE
    /\ frequencyData = <<>>
    /\ energyCentres = <<>>
    /\ binsRead = <<>>
    /\ TransientIdle
    /\ RT60Idle
    /\ NoiseIdle
    /\ OvertoneIdle
    /\ ScoreIdle
    /\ FrequencyIdle
    /\ CaptureIdle
    /\ StreamIdle

\* What the actions on frames leave alone.
OutsideFrames ==
    <<pc, sampleRate, transientVars, rt60Vars, bandVars, noiseVars, overtoneVars,
      scoreVars, frequencyVars, captureVars, streamVars>>

\* tick (useFFT.ts lines 44-68) on the analyser of createFFTAnalyser:
\* getFrequencyData and getTimeDomainData (fftAnalyser.ts lines 35-42) write
\* the new frame into the analyser's two buffers, then the band levels, then
\* setData.
PublishFrame ==
    /\ pc = "frames"
    /\ Len(heap) + 2 <= MaxArrays
    /\ \E f \in FrequencyFrames, t \in TimeDomainFrames :
          LET filled == [heap EXCEPT ![analyser.frequencyData] = f,
                                     ![analyser.timeDomainData] = t]
              e == [b \in Bands |->
                       BandEnergy(f, ENERGY_CENTRES[b].low, ENERGY_CENTRES[b].high,
                                  sampleRate, fftSize).value]
              frequencyCopy == NewFloat32Array(filled, analyser.frequencyData)
              timeDomainCopy == NewFloat32Array(frequencyCopy.heap, analyser.timeDomainData)
          IN  /\ heap' = timeDomainCopy.heap
              /\ fftData' = [frequencyData |-> frequencyCopy.ref,
                             timeDomainData |-> timeDomainCopy.ref,
                             energyCentres |-> e]
    /\ collectDue' = TRUE
    /\ UNCHANGED <<analyser, rmsSamplesRef, freqSnapshotsRef, OutsideFrames>>

\* The collecting effect of AmbientListen (part_002 lines 54-60), run after
\* fft.data has changed.
CollectFrame ==
    /\ pc = "frames"
    /\ collectDue
    /\ Len(heap) + 1 <= MaxArrays
    /\ rmsSamplesRef' = Append(rmsSamplesRef, ComputeRMS(heap[fftData.timeDomainData]))
    /\ LET snapshot == NewFloat32Array(heap, fftData.frequencyData)
       IN  /\ heap' = snapshot.heap
           /\ freqSnapshotsRef' = Append(freqSnapshotsRef, snapshot.ref)
    /\ collectDue' = FALSE
    /\ UNCHANGED <<analyser, fftData, OutsideFrames>>

SpecFrame == FrameInit /\ [][PublishFrame \/ CollectFrame]_vars

---------------------------------------------------------------------------
(* The claims about transientDetector.ts *)

(* C1: any two consecutive events of detectTransients are at least
   minIntervalSeconds apart in time, and the events are in strictly
   increasing sampleIndex order. *)
C1_MinSpacing ==
    \A i \in 1..(Len(events) - 1) :
        /\ events[i].sampleIndex < events[i + 1].sampleIndex
        /\ RLeq(config.minIntervalSeconds,
                Rat(events[i + 1].sampleIndex - events[i].sampleIndex, sampleRate))

\* The length extractImpulseResponse is to return.
SegmentLength ==
    Min(RFloor(Rat(durationSeconds.n * sampleRate, durationSeconds.d)),
        Len(buffer) - transient.sampleIndex)

(* C11: extractImpulseResponse returns the contiguous part of the buffer that
   starts at the event's sampleIndex and has length min(floor(duration *
   sampleRate), buffer.length - sampleIndex), the empty sequence when that
   length is not positive, and leaves the buffer as it was. *)
C11_ExtractedSegment ==
    [][ExtractImpulseResponseCall =>
          /\ buffer' = buffer
          /\ LET n == SegmentLength'
             IN  IF n <= 0
                 THEN segment' = <<>>
                 ELSE segment' = [i \in 1..n |-> buffer[transient'.sampleIndex + i]]]_vars

\* A segment from inside the buffer, cut short by the buffer's end.
C11_Witness ==
    /\ pc = "extracted"
    /\ segment # <<>>
    /\ Len(segment) < RFloor(Rat(durationSeconds.n * sampleRate, durationSeconds.d))
    /\ transient.sampleIndex > 0

\* Every sample of the buffer is zero.
Silent == \A i \in 1..Len(buffer) : buffer[i] = 0

(* C12: for a buffer whose samples are all zero, detectTransients returns no
   event, for every sample rate and configuration. *)
C12_SilenceNoEvents == Silent => events = <<>>

\* A silent buffer of more than 20 windows has been scanned to its end with
\* an amplitude gate that lets every window through.
C12_Witness ==
    /\ pc = "done"
    /\ Silent
    /\ NumWindows(buffer, config.windowSize) > AvgWindows
    /\ config.minAmplitude = 0

\* The window the loop is at passes the ratio test.
OverThreshold ==
    RLess(ThresholdLinear(config.thresholdDB), Ratio(buffer, config.windowSize, w))

\* The window the loop is at is quieter than minAmplitude.
TooQuiet == Peak(buffer, config.windowSize, w) < config.minAmplitude

\* The window the loop is at starts at least minIntervalSeconds after the last
\* recorded event, or there is no event yet.
LongAfterLastEvent ==
    \/ events = <<>>
    \/ RLeq(config.minIntervalSeconds,
            Rat(w * config.windowSize - events[Len(events)].sampleIndex, sampleRate))

(* C21: a window over the ratio threshold that passes the interval gate but
   is quieter than minAmplitude gives no event and leaves the last-detected
   position as it was; so a later window over the threshold and loud enough,
   at least minIntervalSeconds after the last recorded event, is recorded
   however close it is to the rejected window. *)
C21_RejectedWindowKeepsGate ==
    [][DetectTransientsWindow =>
          /\ (OverThreshold /\ TooQuiet) =>
                 /\ events' = events
                 /\ lastDetectedSample' = lastDetectedSample
          /\ (OverThreshold /\ ~TooQuiet /\ LongAfterLastEvent) =>
                 /\ Len(events') = Len(events) + 1
                 /\ events'[Len(events')].sampleIndex = w * config.windowSize
                 /\ lastDetectedSample' = w * config.windowSize]_vars

\* An event was recorded in the window right after a window that was over the
\* threshold, had the gate open and was rejected for its amplitude.
C21_Witness ==
    /\ pc = "done"
    /\ \E j \in 1..Len(events) :
          LET win == events[j].sampleIndex \div config.windowSize
              before == IF j = 1
                        THEN -MinIntervalSamples(config.minIntervalSeconds, sampleRate)
                        ELSE events[j - 1].sampleIndex
          IN  /\ win > AvgWindows
              /\ RLess(ThresholdLinear(config.thresholdDB),
                       Ratio(buffer, config.windowSize, win - 1))
              /\ Peak(buffer, config.windowSize, win - 1) < config.minAmplitude
              /\ (win - 1) * config.windowSize - before
                    >= MinIntervalSamples(config.minIntervalSeconds, sampleRate)
              /\ config.windowSize
                    < MinIntervalSamples(config.minIntervalSeconds, sampleRate)

\* extractImpulseResponse was called as stopCapture calls it (line 111): on an
\* event detectTransients returned for this buffer, for 3 seconds.
ExtractedAsStopCapture ==
    /\ pc = "extracted"
    /\ durationSeconds = Rat(3, 1)
    /\ \E j \in 1..Len(events) : events[j] = transient

(* C30: an impulse response extracted, for 3 seconds, for an event that
   detectTransients returned on the same buffer is not empty and has at least
   min(windowSize, floor(3 * sampleRate)) samples. *)
C30_ExtractedNotEmpty ==
    ExtractedAsStopCapture =>
        /\ segment # <<>>
        /\ Len(segment) >= Min(config.windowSize, RFloor(Rat(3 * sampleRate, 1)))

\* The event is in the last complete window of a recording that ends there,
\* and the segment is that window alone.
C30_Witness ==
    /\ ExtractedAsStopCapture
    /\ transient.sampleIndex + config.windowSize = Len(buffer)
    /\ Len(segment) = config.windowSize
    /\ config.windowSize > 1

(* C26: detectTransients reports no event in the first min(20, numWindows)
   windows: every event has a sampleIndex of at least 20 * windowSize that
   is a multiple of windowSize, and a buffer of 20 or fewer complete windows
   gives no event. *)
C26_NoEarlyEvent ==
    /\ \A j \in 1..Len(events) :
          /\ events[j].sampleIndex >= 20 * config.windowSize
          /\ events[j].sampleIndex % config.windowSize = 0
    /\ Len(buffer) \div config.windowSize <= 20 => events = <<>>

\* An event in the first window after the twentieth, of two samples a window.
C26_Witness ==
    /\ pc = "done"
    /\ config.windowSize = 2
    /\ events # <<>>
    /\ events[1].sampleIndex = 20 * config.windowSize

---------------------------------------------------------------------------
(* The claims about rt60.ts *)

SomeNonZero(ir) == \E i \in 1..Len(ir) : ir[i] # 0

(* C2: for a non-empty impulse response with a non-zero sample, the curve of
   schroederIntegration is 0 dB at index 0, at most 0 dB at every index, and
   non-increasing with the index. *)
C2_SchroederCurve ==
    (pc = "analysed" /\ SomeNonZero(impulseResponse)) =>
        /\ decayCurve[1] = ZeroDB
        /\ \A i \in 1..Len(decayCurve) : RLeq(decayCurve[i], ZeroDB)
        /\ \A i \in 1..(Len(decayCurve) - 1) : RLeq(decayCurve[i + 1], decayCurve[i])

\* A curve that falls: it is 0 dB at first, crosses -25 dB and ends at -Infinity.
C2_Witness ==
    /\ pc = "analysed"
    /\ SomeNonZero(impulseResponse)
    /\ Len(decayCurve) = MaxImpulseLen
    /\ AtMostDB(decayCurve[3], 25)
    /\ ~AtMostDB(decayCurve[2], 25)
    /\ decayCurve[MaxImpulseLen] = Rat(0, 1)

\* The first 0-based index of the curve at or under -k dB; -1 stands for none.
RefFirst(curve, k) ==
    LET hits == {i \in 0..(Len(curve) - 1) : AtMostDB(curve[i + 1], k)}
    IN  IF hits = {} THEN -1 ELSE CHOOSE i \in hits : \A j \in hits : i <= j

\* The two-tier reference of the claim.
RefRT60(curve, sr) ==
    LET t5 == RefFirst(curve, 5)
        t25 == RefFirst(curve, 25)
        t10 == RefFirst(curve, 10)
    IN  IF t5 # -1 /\ t25 # -1 /\ t25 > t5 THEN Rat((t25 - t5) * 3, sr)
        ELSE IF t10 # -1 THEN Rat(t10 * 6, sr)
        ELSE Rat(0, 1)

(* C3: for every decay curve and sample rate, estimateRT60 equals the
   two-tier reference: 3 * (t25 - t5) / sampleRate when t5 and t25 exist and
   t25 > t5, else 6 * t10 / sampleRate when t10 exists, else 0. *)
C3_EstimateIsReference ==
    (pc = "estimated") => rt60 = RefRT60(decayCurve, sampleRate)

\* The fallback is taken with t25 = t5 > 0 and gives a positive estimate.
C3_Witness ==
    /\ pc = "estimated"
    /\ RefFirst(decayCurve, 5) > 0
    /\ RefFirst(decayCurve, 25) = RefFirst(decayCurve, 5)
    /\ rt60 = Rat(RefFirst(decayCurve, 10) * 6, sampleRate)
    /\ rt60.n > 0

Zeros(k) == [i \in 1..k |-> 0]

(* C7: when the Schroeder curve of an impulse response reaches -25 dB,
   appending zero samples to the impulse response does not change the rt60
   of computeRT60 / analyseRT60. *)
C7_SilencePadding ==
    (pc = "analysed" /\ RefFirst(decayCurve, 25) # -1) =>
        \A k \in 1..MaxPad :
            ComputeRT60(impulseResponse \o Zeros(k), sampleRate) = rt60

\* An impulse response that ends on a non-zero sample and took the T20 path.
C7_Witness ==
    /\ pc = "analysed"
    /\ impulseResponse # <<>>
    /\ impulseResponse[Len(impulseResponse)] # 0
    /\ RefFirst(decayCurve, 25) > RefFirst(decayCurve, 5)
    /\ rt60.n > 0

---------------------------------------------------------------------------
(* The claims about the band mapper *)

(* C6: the bin ranges the band mapper averages for the seven bands are
   pairwise disjoint: no bin index contributes to more than one band. *)
C6_BandsDisjoint ==
    (pc = "published") =>
        \A b1, b2 \in Bands : b1 # b2 => binsRead[b1] \cap binsRead[b2] = {}

\* The bins of band b's range that lie inside the frame: i is in the range
\* when round(low * fftSize / sampleRate) <= i <= round(high * fftSize /
\* sampleRate), rounding halves up.
InBoundsRange(b) ==
    { i \in 0..(Len(frequencyData) - 1) :
        /\ 2 * ENERGY_CENTRES[b].low * fftSize - sampleRate < 2 * i * sampleRate
        /\ 2 * i * sampleRate <= 2 * ENERGY_CENTRES[b].high * fftSize + sampleRate }

RECURSIVE SumOver(_, _)
SumOver(S, f) ==
    IF S = {} THEN 0
    ELSE LET x == CHOOSE y \in S : TRUE
         IN  FToInt(f[x + 1]) + SumOver(S \ {x}, f)

\* The arithmetic mean of the frame's levels over a non-empty set of bins:
\* -Infinity when one of them is -Infinity.
MeanOver(S) ==
    IF \E i \in S : frequencyData[i + 1] = NegInf THEN NegInf
    ELSE LET t == SumOver(S, frequencyData)
         IN  F(IF t < 0 THEN -1 ELSE 1, Abs(t), Cardinality(S))

\* What C10 says of every band but for when the result is -Infinity.
C10_ReadsAndMean(b) ==
    /\ binsRead[b] \subseteq 0..(Len(frequencyData) - 1)
    /\ binsRead[b] = InBoundsRange(b)
    /\ binsRead[b] # {} => energyCentres[b] = MeanOver(binsRead[b])

(* C10 as stated: bandEnergy reads only indices inside the frame, returns the
   mean of the levels at exactly the in-bounds bins of the band's range, and
   returns -Infinity if and only if no bin of the range is inside the frame. *)
C10_AsStated ==
    (pc = "published") =>
        \A b \in Bands :
            /\ C10_ReadsAndMean(b)
            /\ energyCentres[b] = NegInf <=> InBoundsRange(b) = {}

(* C10 as amended: bandEnergy reads only indices inside the frame and returns
   the mean of the levels at exactly the in-bounds bins of the band's range;
   it returns -Infinity if and only if no bin of the range is inside the
   frame or one of the in-bounds bins of the range holds -Infinity. *)
C10_BandEnergy ==
    (pc = "published") =>
        \A b \in Bands :
            /\ C10_ReadsAndMean(b)
            /\ energyCentres[b] = NegInf <=>
                   \/ InBoundsRange(b) = {}
                   \/ \E i \in InBoundsRange(b) : frequencyData[i + 1] = NegInf

\* A frame that cuts a band's range short, where the mean of -30 dB and
\* -90 dB is returned, while another band lies outside the frame.
C10_Witness ==
    /\ pc = "published"
    /\ \E b \in Bands :
          /\ Cardinality(binsRead[b]) >= 2
          /\ Len(frequencyData) - 1 \in binsRead[b]
          /\ Len(frequencyData) \notin binsRead[b]
          /\ 2 * Len(frequencyData) * sampleRate
                 <= 2 * ENERGY_CENTRES[b].high * fftSize + sampleRate
          /\ energyCentres[b] = FInt(-60)
    /\ \E b \in Bands : binsRead[b] = {} /\ energyCentres[b] = NegInf

---------------------------------------------------------------------------
(* The claims about the noise floor *)

\* A level that is a finite number not below -200 dB.
FiniteFromMinus200(level) ==
    /\ level.of.k = "fin"
    /\ FLeq(LinFloor, level.of)

(* C9: for every sequence of RMS samples, the empty one included, averageDB
   and peakDB are finite numbers not below -200 dB. *)
C9_LevelsFinite ==
    (pc = "complete") =>
        /\ FiniteFromMinus200(noiseResult.averageDB)
        /\ FiniteFromMinus200(noiseResult.peakDB)

\* averageDB < -50, < -40, < -30, read off the mean amplitude: -40 dB is 1e8
\* units, and -50 dB and -30 dB lie between two whole numbers of units.
AverageUnder(db) ==
    LET x == noiseResult.averageDB.of
    IN  CASE db = -50 -> FLess(x, FInt(31622777))
          [] db = -40 -> FLess(x, FInt(100000000))
          [] db = -30 -> FLess(x, FInt(316227767))

(* C17: the rating of analyseNoiseFloor is decided by averageDB alone:
   'excellent' iff averageDB < -50, 'good' iff -50 <= averageDB < -40, 'fair'
   iff -40 <= averageDB < -30, 'poor' otherwise; and estimatedDBA is
   averageDB + 3. *)
C17_RatingFromAverage ==
    (pc = "complete") =>
        /\ noiseResult.averageDB.plus = 0
        /\ noiseResult.rating = "excellent" <=> AverageUnder(-50)
        /\ noiseResult.rating = "good" <=> (~AverageUnder(-50) /\ AverageUnder(-40))
        /\ noiseResult.rating = "fair" <=> (~AverageUnder(-40) /\ AverageUnder(-30))
        /\ noiseResult.rating = "poor" <=> ~AverageUnder(-30)
        /\ noiseResult.estimatedDBA.of = noiseResult.averageDB.of
        /\ noiseResult.estimatedDBA.plus = noiseResult.averageDB.plus + 3

\* Samples that average to about -55 dB have been rated excellent.
C17_Witness ==
    /\ pc = "complete"
    /\ samples = <<FInt(17782794), FInt(17782794)>>
    /\ noiseResult.rating = "excellent"
    /\ noiseResult.estimatedDBA.plus = 3

\* The mean over the snapshots of the band average that bandEnergy gives for
\* each of them.
MeanOfBandEnergies(b) ==
    FDiv(FSumFrom(FInt(0),
                  [k \in 1..Len(frequencySnapshots) |->
                      BandEnergy(frequencySnapshots[k], ENERGY_CENTRES[b].low,
                                 ENERGY_CENTRES[b].high, sampleRate, fftSize).value]),
         FInt(Len(frequencySnapshots)))

(* C23: for a non-empty list of frequency snapshots, of equal or of
   differing lengths, each band level of analyseNoiseFloor is the mean over
   the snapshots of the band average bandEnergy gives for that snapshot,
   band, sample rate and FFT size. *)
C23_MeanOfSnapshotMeans ==
    (pc = "complete" /\ Len(frequencySnapshots) > 0) =>
        \A b \in Bands : noiseResult.bandLevels[b] = MeanOfBandEnergies(b)

---------------------------------------------------------------------------
(* The claims about the overtone detector *)

(* C5: the confidence returned by detectOvertones lies in [0, 1], also when
   more than 10 of the top 16 peaks are accepted as harmonics. *)
C5_ConfidenceInUnit ==
    (pc = "detected") =>
        /\ FLeq(FInt(0), overtones.confidence)
        /\ FLeq(overtones.confidence, FInt(1))

\* The fundamental is 0 or not finite.
DegenerateFundamental == FIsZero(overtones.fundamental) \/ ~FIsFinite(overtones.fundamental)

(* C8: when the fundamental found by the HPS step is 0 or non-finite,
   detectOvertones returns no harmonic and a confidence of 0, whatever peaks
   the spectrum contains. *)
C8_DegenerateFundamental ==
    (pc = "detected" /\ DegenerateFundamental) =>
        /\ overtones.harmonics = <<>>
        /\ overtones.confidence = FInt(0)

\* A zero fundamental with peaks to classify.
C8_Witness ==
    /\ pc = "detected"
    /\ FIsZero(overtones.fundamental)
    /\ Len(FindSpectralPeaks(magnitudeSpectrum, sampleRate, fftSize)) > 1

\* ceil(20 * fftSize / sampleRate) for a positive sample rate and FFT size.
TwentyHzBin == (20 * fftSize + sampleRate - 1) \div sampleRate

\* Bin b is in the product array at or above 20 Hz, and no bin there has a
\* larger product.
BestProductBin(b) ==
    LET halfLength == Len(magnitudeSpectrum) \div NumHarmonics
    IN  /\ TwentyHzBin <= b
        /\ b < halfLength
        /\ \A i \in TwentyHzBin..(halfLength - 1) :
              ~FLess(Hps(magnitudeSpectrum, NumHarmonics, b),
                     Hps(magnitudeSpectrum, NumHarmonics, i))

(* C25: the bin whose frequency harmonicProductSpectrum returns is an index
   of the product array at or above 20 Hz, ceil(20 * fftSize / sampleRate)
   <= b < floor(spectrumLength / numHarmonics), with no larger product in
   that range, also when the product array is shorter than the 20 Hz bin.
   Stated for positive sample rates and FFT sizes. *)
C25_ReturnedBinInRange ==
    (pc = "detected" /\ sampleRate > 0 /\ fftSize > 0) =>
        \E b \in 0..Len(magnitudeSpectrum) :
            /\ overtones.fundamental = FDiv(FInt(b * sampleRate), FInt(fftSize))
            /\ BestProductBin(b)

\* The peaks of the spectrum as findSpectralPeaks returns them.
SpectralPeaks == FindSpectralPeaks(magnitudeSpectrum, sampleRate, fftSize)

\* r = peakFreq / fundamental has round(r) >= 1 and |r - round(r)| < 0.08.
NearHarmonic(p) ==
    LET r == FDiv(p.frequency, overtones.fundamental)
    IN  /\ FLeq(FInt(1), FRound(r))
        /\ FLess(FAbs(FSub(r, FRound(r))), F(1, 8, 100))

(* C24: the harmonics of detectOvertones are exactly those of the 16
   highest-amplitude spectral peaks whose ratio r = peakFreq / fundamental
   has round(r) >= 1 and |r - round(r)| < 0.08, each with harmonicNumber =
   round(r), a whole number >= 1; so there are at most 16 of them and none
   is a peak outside the top 16. *)
C24_HarmonicsOfTopPeaks ==
    (pc = "detected") =>
        \E peaks \in {SpectralPeaks} :
          \E expected \in {SelectSeq(SubSeq(peaks, 1, Min(16, Len(peaks))), NearHarmonic)} :
            /\ \A i \in 17..Len(peaks), j \in 1..16 :
                  ~FLess(peaks[j].amplitude, peaks[i].amplitude)
            /\ Len(overtones.harmonics) <= 16
            /\ Len(overtones.harmonics) = Len(expected)
            /\ \A j \in 1..Len(expected) :
                  LET h == overtones.harmonics[j]
                  IN  /\ h.frequency = expected[j].frequency
                      /\ h.amplitude = expected[j].amplitude
                      /\ h.harmonicNumber
                            = FRound(FDiv(expected[j].frequency, overtones.fundamental))
                      /\ h.harmonicNumber.k = "fin"
                      /\ h.harmonicNumber.d = 1
                      /\ h.harmonicNumber.s * h.harmonicNumber.n >= 1

\* More than 16 peaks of rising amplitude: some of the loudest 16 are
\* harmonics and the quieter peaks are left out.
C24_Witness ==
    /\ pc = "detected"
    /\ Len(overtones.harmonics) >= 2
    /\ \E peaks \in {SpectralPeaks} :
          /\ Len(peaks) > 16
          /\ FLess(peaks[17].amplitude, peaks[16].amplitude)
          /\ \E j \in 1..16 : ~NearHarmonic(peaks[j])

---------------------------------------------------------------------------
(* The claims about the compatibility scorer *)

(* C4: computeCompatibilityScore returns an integer in [0, 100] for every
   input, band levels of -Infinity and a null noise floor included. *)
C4_ScoreInRange ==
    (pc = "scored") =>
        /\ FIsFinite(compatibilityScore)
        /\ compatibilityScore.d = 1
        /\ FLeq(FInt(0), compatibilityScore)
        /\ FLeq(compatibilityScore, FInt(100))

\* Every band level of lower is at most that of higher.
LevelsAtMost(lower, higher) == \A b \in Bands : FLeq(lower[b], higher[b])

(* C13: with the noise floor, the confidence and the harmonics fixed, raising
   instrument band levels never lowers the score: the score of an input whose
   every band level is at least that of another is at least the other's. *)
C13_MonotoneInLevels ==
    (pc = "scored") =>
        \A higher \in InstrumentCentres :
            LevelsAtMost(scoringInput.instrumentCentres, higher) =>
                FLeq(compatibilityScore,
                     ComputeCompatibilityScore(
                         [scoringInput EXCEPT !.instrumentCentres = higher]))

\* The frequency of a bin.
BinFrequency(bin) == FDiv(FInt(bin * sampleRate), FInt(fftSize))

\* The harmonics list has the peak at bin as harmonic number h.
ListedAs(bin, h) ==
    \E j \in 1..Len(overtones.harmonics) :
        /\ overtones.harmonics[j].frequency = BinFrequency(bin)
        /\ overtones.harmonics[j].harmonicNumber = FInt(h)

\* The spectrum given is a floor with peaks at exactly the bins of F, 2F, 3F
\* and 4F, F being the frequency of bin spacing: above 20 Hz, and with its bin
\* inside the product array of the HPS step.
SyntheticOf(len, floor, spacing, shape) ==
    /\ magnitudeSpectrum = CombSpectrum(len, floor, spacing, 4, shape, -1)
    /\ 4 * spacing < len
    /\ spacing < HalfLength(magnitudeSpectrum, NumHarmonics)
    /\ sampleRate > 0
    /\ fftSize > 0
    /\ spacing * sampleRate > 20 * fftSize

(* C14: for a spectrum with peaks at exactly the bins of F, 2F, 3F and 4F
   above a uniform floor, detectOvertones reports a fundamental within one
   bin of F, lists the peaks at 2F, 3F and 4F as harmonics 2, 3 and 4, and
   gives a confidence above 0. *)
C14_SyntheticHarmonics ==
    (pc = "detected") =>
        \A len \in SpectrumLengths, floor \in SpectrumFloors,
           spacing \in CombSpacings, shape \in CombShapes :
            SyntheticOf(len, floor, spacing, shape) =>
                /\ FLeq(FAbs(FSub(overtones.fundamental, BinFrequency(spacing))),
                        BinFrequency(1))
                /\ \A h \in 2..4 : ListedAs(h * spacing, h)
                /\ FLess(FInt(0), overtones.confidence)

---------------------------------------------------------------------------
(* The claims about rt60.ts on degenerate and arbitrary impulses *)

\* No sample of the impulse response is non-zero (the empty one included).
SilentImpulse == \A i \in 1..Len(impulseResponse) : impulseResponse[i] = 0

(* C16: for an impulse segment that is empty or all zero, the curve of
   schroederIntegration has the length of the segment and every value 0, and
   analyseRT60 reports rt60 = 0 and quality 'poor'. *)
C16_SilentImpulse ==
    (pc = "analysed" /\ SilentImpulse) =>
        /\ Len(decayCurve) = Len(impulseResponse)
        /\ \A i \in 1..Len(decayCurve) : decayCurve[i] = ZeroDB
        /\ rt60 = Rat(0, 1)
        /\ quality = "poor"

\* An all-zero impulse of several samples has been analysed.
C16_Witness ==
    /\ pc = "analysed"
    /\ Len(impulseResponse) >= 2
    /\ SilentImpulse
    /\ Len(decayCurve) = Len(impulseResponse)
    /\ quality = "poor"

\* The least value of a non-empty curve.
CurveMinimum(curve) ==
    CHOOSE m \in {curve[i] : i \in 1..Len(curve)} :
        \A i \in 1..Len(curve) : RLeq(m, curve[i])

(* C18: analyseRT60 returns a decayCurve as long as the impulse, and a
   quality that its minimum m decides: 'good' iff m <= -35 dB, 'fair' iff
   -35 dB < m <= -20 dB, 'poor' iff m > -20 dB, whichever way rt60 was
   extrapolated. *)
C18_QualityFromMinimum ==
    (pc = "analysed") =>
        /\ Len(decayCurve) = Len(impulseResponse)
        /\ decayCurve # <<>> =>
              LET m == CurveMinimum(decayCurve)
              IN  /\ quality = "good" <=> AtMostDB(m, 35)
                  /\ quality = "fair" <=> (~AtMostDB(m, 35) /\ AtMostDB(m, 20))
                  /\ quality = "poor" <=> ~AtMostDB(m, 20)

\* A curve whose minimum is exactly -20 dB is rated fair, and its rt60 came
\* from the -10 dB fallback.
C18_Witness ==
    /\ pc = "analysed"
    /\ impulseResponse = <<7, 7, 1, 1>>
    /\ CurveMinimum(decayCurve) = Rat(1, 100)
    /\ quality = "fair"
    /\ FirstAtMost(decayCurve, 25, 0) = -1
    /\ rt60.n > 0

\* The rt60 of the analysed curve came from the -10 dB point: the T20 test of
\* line 63 failed and a -10 dB point after index 0 was found.
FromFallback ==
    LET t5 == RefFirst(decayCurve, 5)
        t25 == RefFirst(decayCurve, 25)
    IN  /\ t5 = -1 \/ t25 = -1 \/ t25 <= t5
        /\ RefFirst(decayCurve, 10) > 0

(* C22: when the rt60 of an RT60Result came from the -10 dB fallback and not
   from the T20 path, the quality of the same result is 'fair' or 'poor'. *)
C22_FallbackNotGood ==
    (pc = "analysed" /\ FromFallback) => quality \in {"fair", "poor"}

---------------------------------------------------------------------------
(* The claims about the note mapper *)

\* 2^e
RECURSIVE Pow2(_)
Pow2(e) == IF e = 0 THEN 1 ELSE 2 * Pow2(e - 1)

\* a === b for two frequencies: 440 * 2^(s/12) is a fraction only for whole
\* octaves.
SameFrequency(a, b) ==
    LET value(x) ==
            IF "k" \in DOMAIN x
            THEN IF x.s % 12 = 0
                 THEN IF x.s >= 0
                      THEN Rat(440 * Pow2(x.s \div 12), 1)
                      ELSE Rat(440, Pow2((-x.s) \div 12))
                 ELSE x
            ELSE x
    IN  value(a) = value(b)

(* C15: for a frequency that is 0 cents from a note of the scale,
   noteToFrequency of the name and octave that frequencyToNote gives is
   exactly the exactFrequency it gives, for every note name and octave. *)
C15_RoundTrip ==
    (pc = "recovered" /\ note.cents = 0) =>
        SameFrequency(recovered, note.exactFrequency)

---------------------------------------------------------------------------
(* The claims about frequencyToCentre *)

\* The entries of ENERGY_BANDS whose range [low, high) holds the frequency.
Holding(f) ==
    {i \in 1..Len(ENERGY_BANDS) :
        FLeq(FInt(ENERGY_BANDS[i].low), f) /\ FLess(f, FInt(ENERGY_BANDS[i].high))}

(* C19: frequencyToCentre maps a finite frequency to at most one band: the
   only band whose [low, high) holds it from 32 Hz up to 4000 Hz, 'crown'
   from 1024 Hz on (4000 Hz and above included), null under 32 Hz; and the
   seven ranges are contiguous, non-overlapping and increasing. *)
C19_OneCentre ==
    /\ \A i \in 1..Len(ENERGY_BANDS) : ENERGY_BANDS[i].low < ENERGY_BANDS[i].high
    /\ \A i \in 1..(Len(ENERGY_BANDS) - 1) : ENERGY_BANDS[i].high = ENERGY_BANDS[i + 1].low
    /\ (pc = "mapped" /\ FIsFinite(hz)) =>
          /\ (FLeq(FInt(32), hz) /\ FLess(hz, FInt(4000))) =>
                /\ Cardinality(Holding(hz)) = 1
                /\ \A i \in Holding(hz) : centre = ENERGY_BANDS[i].key
          /\ FLeq(FInt(1024), hz) => centre = "crown"
          /\ FLess(hz, FInt(32)) => centre = "null"

\* A frequency on the edge between two bands has gone to the upper one.
C19_Witness ==
    /\ pc = "mapped"
    /\ hz = FInt(128)
    /\ centre = "sacral"

---------------------------------------------------------------------------
(* The claims about the clap test *)

\* The recording is not empty and detectTransients finds nothing in it.
NoClapsInRecording ==
    /\ bufferRef # <<>>
    /\ DetectTransients(Flatten(bufferRef), CaptureRate, CaptureConfig) = <<>>

(* C20: when stopCapture finds no transient in a non-empty recording, it sets
   the error to the 'No claps detected' message, returns an empty list and
   leaves results empty and isRecording false; and no step but a call of
   startCapture starts a capture: none sets isRecording, puts a processor in
   processorRef or connects one. *)
C20_NoClapsReported ==
    [][/\ (ClickStop /\ NoClapsInRecording) =>
              /\ error' = NoClapsDetected
              /\ returned' = <<>>
              /\ results' = <<>>
              /\ isRecording' = FALSE
       /\ ~StartCapture =>
              /\ isRecording' => isRecording
              /\ processorRef' = "node" => processorRef = "node"
              /\ orphaned' => orphaned]_vars

\* A recording of three blocks without a clap has been stopped.
C20_Witness ==
    /\ phase = "done"
    /\ Len(bufferRef) = 3
    /\ NoClapsInRecording
    /\ error = NoClapsDetected
    /\ returned = <<>>
    /\ results = <<>>
    /\ ~isRecording

---------------------------------------------------------------------------
(* The claims about the recording buffer *)

(* C28: while a clap test is recording, the recording buffer holds the blocks
   the audio front end delivered since the recording started, each once and
   in the order of arrival, also after a second startCapture without a
   stopCapture in between. *)
C28_EachBlockOnce ==
    (isRecording /\ pendingBlock = <<>>) => bufferRef = arrived

---------------------------------------------------------------------------
(* The claims about useAudioStream.ts *)

(* C29: when stop() was the last of start and stop to be called, no microphone
   track is live and isActive is false, whatever the start() calls before it
   were waiting for. *)
C29_StoppedStaysStopped ==
    (lastCall = "stop") => (liveStreams = {} /\ ~state.isActive)

---------------------------------------------------------------------------
(* The claims about the frames of useFFT *)

\* The arrays of the FFTData published last and of the snapshots collected.
KeptFrames ==
    (IF DOMAIN fftData = {} THEN {} ELSE {fftData.frequencyData, fftData.timeDomainData})
        \cup {freqSnapshotsRef[i] : i \in 1..Len(freqSnapshotsRef)}

(* C27: no step changes the values of a frame that useFFT has published or
   that AmbientListen has collected: a tick writes into the analyser's two
   buffers only. *)
C27_FramesKeepValues ==
    [][\A a \in KeptFrames : heap'[a] = heap[a]]_vars

\* Two collected frames differ, and the analyser's buffer has since been
\* overwritten with a frame that is neither.
C27_Witness ==
    /\ Len(freqSnapshotsRef) >= 2
    /\ heap[freqSnapshotsRef[1]] # heap[freqSnapshotsRef[2]]
    /\ heap[analyser.frequencyData] # heap[freqSnapshotsRef[1]]
    /\ heap[analyser.frequencyData] # heap[freqSnapshotsRef[2]]

=============================================================================
